---- MODULE Spec2Model ----
(***************************************************************************)
(* The identity-verification workflow of the orchestrator: the chat        *)
(* endpoint (orchestrator/main.py), the workflow state machine             *)
(* (orchestrator/state_machine.py) and the validators it dispatches to     *)
(* (orchestrator/validators/*.py).                                         *)
(*                                                                         *)
(* A message is a sequence of one-character strings.  The collaborators    *)
(* outside the repository (the text-generation service, SendGrid,          *)
(* Firestore, libphonenumber) are inputs of the actions.  Time is counted  *)
(* in minutes.  An absent value (Python None) is the empty sequence and a  *)
(* present one a one-element sequence; an absent message text is "None".   *)
(* The created_at and updated_at stamps of the records are left out.       *)
(***************************************************************************)
EXTENDS Integers, Sequences, FiniteSets, TLC

VARIABLES
    user_states,   \* Firestore collection user_states: user id -> <<>> or <<UserState>>
    users,         \* Firestore collection users: user id -> <<>> or <<User>>
    now,           \* the wall clock, in minutes
    outbox,        \* per user, <<>> or <<the plaintext code SendGrid accepted last>>
    otp_track,     \* per user, history of the submissions against the issued code
    canon,         \* per user, how many canonical messages were processed, -1 once off that path
    last,          \* <<>> or <<the observation of the request or call being answered>>
    tools,         \* ToolRegistry.tools: tool name -> its definition
    invocations,   \* how many times a tool handler was invoked
    inflight,      \* per server instance, <<>> or <<the chat request it is working on>>
    compared,      \* how many submitted codes were hash-compared with the stored code
    availability_slots, \* Firestore collection availability_slots: slot id -> status
    appointments,  \* Firestore collection appointments: the documents, in order of creation
    time_slots     \* Firestore collection time_slots: slot id -> the slot

\* The collections of the appointment services.
booking == <<availability_slots, appointments, time_slots>>

vars == <<user_states, users, now, outbox, otp_track, canon, last, tools, invocations,
          inflight, compared, booking>>

(***************************************************************************)
(* Bounds of the model.                                                    *)
(***************************************************************************)
MaxTime == 10
MaxFailed == 4
MaxCompleted == 5
MaxInvocations == 1
MaxDepth == 3
MaxCompared == 5
MaxAppointments == 3

Users == {"u1"}

\* The server instances that share the Firestore collections.
Instances == {"i1", "i2"}

(***************************************************************************)
(* Program constants.                                                      *)
(***************************************************************************)
OTP_LENGTH == 6
OTP_EXPIRY_MINUTES == 5
MAX_ATTEMPTS == 3
max_otp_attempts_default == 3
max_attempts_default == 3

Salt == "otp-salt"

AWAITING_TERMS == "awaiting_terms"
AWAITING_NAME == "awaiting_name"
AWAITING_EMAIL == "awaiting_email"
AWAITING_PHONE == "awaiting_phone"
AWAITING_OTP == "awaiting_otp"
VERIFIED == "verified"
ACTIVE == "active"
SUSPENDED == "suspended"

WorkflowStep ==
    {AWAITING_TERMS, AWAITING_NAME, AWAITING_EMAIL, AWAITING_PHONE,
     AWAITING_OTP, VERIFIED, ACTIVE, SUSPENDED}

\* StateMachine.TRANSITIONS: the allowed next steps of each step.
TRANSITIONS ==
    [s \in {AWAITING_TERMS, AWAITING_NAME, AWAITING_EMAIL, AWAITING_PHONE,
            AWAITING_OTP, ACTIVE} |->
        CASE s = AWAITING_TERMS -> {AWAITING_NAME}
          [] s = AWAITING_NAME -> {AWAITING_EMAIL}
          [] s = AWAITING_EMAIL -> {AWAITING_PHONE}
          [] s = AWAITING_PHONE -> {AWAITING_OTP}
          [] s = AWAITING_OTP -> {ACTIVE}
          [] s = ACTIVE -> {ACTIVE}]

(***************************************************************************)
(* Characters and strings.                                                 *)
(***************************************************************************)
UpperCase ==
    <<"A","B","C","D","E","F","G","H","I","J","K","L","M",
      "N","O","P","Q","R","S","T","U","V","W","X","Y","Z">>
LowerCase ==
    <<"a","b","c","d","e","f","g","h","i","j","k","l","m",
      "n","o","p","q","r","s","t","u","v","w","x","y","z">>
Digits == {"0","1","2","3","4","5","6","7","8","9"}
Whitespace == {" "}

Range(f) == {f[i] : i \in DOMAIN f}
Letters == Range(UpperCase) \cup Range(LowerCase)

\* str.lower(), one character
LowerChar(c) ==
    IF c \in Range(UpperCase)
    THEN LowerCase[CHOOSE i \in DOMAIN UpperCase : UpperCase[i] = c]
    ELSE c

\* str.lower()
Lower(s) == [i \in DOMAIN s |-> LowerChar(s[i])]

\* `pat in s` for Python strings
Contains(s, pat) ==
    \E i \in 1..(Len(s) - Len(pat) + 1) : SubSeq(s, i, i + Len(pat) - 1) = pat

\* str.strip()
Strip(s) ==
    LET keep == {i \in DOMAIN s : s[i] \notin Whitespace} IN
    IF keep = {} THEN << >>
    ELSE SubSeq(s, CHOOSE i \in keep : \A j \in keep : i <= j,
                   CHOOSE i \in keep : \A j \in keep : j <= i)

\* ''.join(filter(pred, s))
RECURSIVE FilterIn(_, _)
FilterIn(s, set) ==
    IF s = << >> THEN << >>
    ELSE IF Head(s) \in set THEN <<Head(s)>> \o FilterIn(Tail(s), set)
    ELSE FilterIn(Tail(s), set)

\* s.count(c)
Count(s, c) == Cardinality({i \in DOMAIN s : s[i] = c})

None == << >>
NoneStr == "None"

\* dict.get(key, default)
Get(d, key, default) == IF key \in DOMAIN d THEN d[key] ELSE default

\* d with d[key] = value
Put(d, key, value) == [k \in (DOMAIN d) \cup {key} |-> IF k = key THEN value ELSE d[k]]

(***************************************************************************)
(* The messages a user sends.                                              *)
(***************************************************************************)
mTermsAccepted == <<"T","E","R","M","S","_","A","C","C","E","P","T","E","D">>
mIAgree == <<"I"," ","A","g","r","e","e">>
mBlank == <<" ">>
mEmail == <<"a","@","b",".","c","o">>
mEmailInText == <<"a","t"," ","A","@","b",".","c","o">>
mBadEmail == <<"a","@","b">>
mPhone == <<"+","1"," ","6","5","0","2","5","3","0","0","0","0">>
mCode1 == <<"1","2","3","4","5","6">>
mCode2 == <<"6","5","4","3","2","1">>
mCode1Dashed == <<"1","2","3","-","4","5","6">>
mFiveDigits == <<"1","2","3","4","5">>

Messages ==
    {mTermsAccepted, mIAgree, mBlank, mEmail, mEmailInText, mBadEmail,
     mPhone, mCode1, mCode2, mCode1Dashed, mFiveDigits}

\* secrets.randbelow(10), six times: the codes generate_otp can return
Codes == {mCode1, mCode2}

(***************************************************************************)
(* ValidationResult (models.py)                                            *)
(***************************************************************************)
ValidationResult(success, data, error_message, metadata) ==
    [success |-> success, data |-> data, error_message |-> error_message,
     metadata |-> metadata]

(***************************************************************************)
(* NameValidator.validate.  `extracted` is what the text-generation        *)
(* service returned: <<"raise">> when extract_structured_data or a field   *)
(* access raises, else <<"ok", mapping>>.                                  *)
(***************************************************************************)
Opt(S) == {<< >>} \cup {<<v>> : v \in S}
OptGet(o, default) == IF o = << >> THEN default ELSE o[1]

ExtractedFirst == {<<" ">>, <<"J","o">>}
ExtractedLast == {<<" ">>, <<"L","i">>}

\* The mappings extract_structured_data can return; a field of value << >> is a
\* key the mapping lacks.
NameExtractions ==
    {<<"raise">>} \cup
    { <<"ok", e>> : e \in [has_first_name : Opt(BOOLEAN), has_last_name : Opt(BOOLEAN),
                           first_name : Opt(ExtractedFirst), last_name : Opt(ExtractedLast)] }

\* The three failures and the success of validate, as ValidationResults.
NameMissing ==
    ValidationResult(FALSE, None,
        "I couldn't detect your name in that message. Could you please provide your full name (first and last)?",
        None)

NameIncomplete(first_name) ==
    ValidationResult(FALSE, [k \in {"first_name"} |-> first_name],
        <<"Thanks, ", first_name,
          "! Could you also provide your last name? I need your full name to continue.">>,
        [k \in {"validation_type", "incomplete", "missing"} |->
            CASE k = "validation_type" -> "name"
              [] k = "incomplete" -> "True"
              [] k = "missing" -> "last_name"])

NameComplete(first_name, last_name) ==
    ValidationResult(TRUE,
        [k \in {"first_name", "last_name", "full_name"} |->
            CASE k = "first_name" -> first_name
              [] k = "last_name" -> last_name
              [] k = "full_name" -> first_name \o <<" ">> \o last_name],
        NoneStr,
        [k \in {"validation_type", "complete"} |->
            IF k = "validation_type" THEN "name" ELSE "True"])

\* A variant that trusts the two presence flags and does not look at the
\* names; C29_NameValidator tells it from NameValidator_validate.
NameValidator_validate_by_flags(user_input, extracted) ==
    LET input == Strip(user_input) IN
    IF input = << >>
    THEN ValidationResult(FALSE, None,
             "I didn't catch your name. Could you please tell me your full name?", None)
    ELSE IF extracted[1] = "raise"
    THEN ValidationResult(FALSE, None,
             "I'm having trouble processing that. Could you please provide your full name (first and last)?",
             None)
    ELSE
        LET e == extracted[2]
            has_first == OptGet(e.has_first_name, FALSE)
            has_last == OptGet(e.has_last_name, FALSE)
            first_name == Strip(OptGet(e.first_name, << >>))
            last_name == Strip(OptGet(e.last_name, << >>))
        IN
        IF ~has_first THEN NameMissing
        ELSE IF ~has_last THEN NameIncomplete(first_name)
        ELSE NameComplete(first_name, last_name)

NameValidator_validate(user_input, extracted) ==
    LET input == Strip(user_input) IN
    IF input = << >>
    THEN ValidationResult(FALSE, None,
             "I didn't catch your name. Could you please tell me your full name?", None)
    ELSE IF extracted[1] = "raise"
    THEN ValidationResult(FALSE, None,
             "I'm having trouble processing that. Could you please provide your full name (first and last)?",
             None)
    ELSE
        LET e == extracted[2]
            has_first == OptGet(e.has_first_name, FALSE)
            has_last == OptGet(e.has_last_name, FALSE)
            first_name == Strip(OptGet(e.first_name, << >>))
            last_name == Strip(OptGet(e.last_name, << >>))
        IN
        IF ~has_first \/ first_name = << >> THEN NameMissing
        ELSE IF ~has_last \/ last_name = << >> THEN NameIncomplete(first_name)
        ELSE NameComplete(first_name, last_name)

(***************************************************************************)
(* EmailValidator                                                          *)
(***************************************************************************)
MAX_EMAIL_LENGTH == 320
LocalChars == Letters \cup Digits \cup {".", "_", "%", "+", "-"}
DomainChars == Letters \cup Digits \cup {".", "-"}

\* EMAIL_REGEX.match(s) is not None:
\* ^[a-zA-Z0-9._%+-]+@[a-zA-Z0-9.-]+\.[a-zA-Z]{2,}$
EMAIL_REGEX(s) ==
    \E a \in DOMAIN s, d \in DOMAIN s :
        /\ s[a] = "@"
        /\ a > 1
        /\ \A i \in 1..(a - 1) : s[i] \in LocalChars
        /\ s[d] = "."
        /\ d > a + 1
        /\ \A i \in (a + 1)..(d - 1) : s[i] \in DomainChars
        /\ Len(s) - d >= 2
        /\ \A i \in (d + 1)..Len(s) : s[i] \in Letters

_is_valid_format(email) ==
    /\ email # << >>
    /\ ~(Len(email) > MAX_EMAIL_LENGTH)
    /\ Count(email, "@") = 1
    /\ EMAIL_REGEX(email)

\* re.findall(extraction_pattern, text)[0].lower(): the leftmost match of the
\* unanchored pattern, taken as long as the greedy quantifiers make it.
extract_email_from_text(text) ==
    LET starts == {i \in DOMAIN text :
                      \E j \in i..Len(text) : EMAIL_REGEX(SubSeq(text, i, j))} IN
    IF starts = {} THEN None
    ELSE LET i == CHOOSE x \in starts : \A y \in starts : x <= y
             ends == {j \in i..Len(text) : EMAIL_REGEX(SubSeq(text, i, j))}
             j == CHOOSE x \in ends : \A y \in ends : y <= x
         IN <<Lower(SubSeq(text, i, j))>>

\* The stored record matching (email, last_name), as the dict the validator
\* builds from it; None when the query finds nothing or raises.
_check_returning_user(db, email, last_name, query_ok) ==
    LET hits == {id \in DOMAIN db :
                    /\ db[id] # None
                    /\ db[id][1].email = email
                    /\ db[id][1].last_name = last_name} IN
    IF ~query_ok \/ hits = {} THEN None
    ELSE LET id == CHOOSE x \in hits : TRUE
             doc == db[id][1]
         IN <<[user_id |-> id, first_name |-> doc.first_name,
               last_name |-> doc.last_name, phone |-> doc.phone,
               country_code |-> doc.country_code, verified |-> doc.verified]>>

EmailValidator_validate(db, email_in, last_name, query_ok) ==
    LET email == Lower(Strip(email_in)) IN
    IF ~_is_valid_format(email)
    THEN ValidationResult(FALSE, None,
             "That doesn't look like a valid email address. Please check and try again.",
             None)
    ELSE LET user_data == IF last_name # None
                          THEN _check_returning_user(db, email, last_name[1], query_ok)
                          ELSE None
         IN ValidationResult(TRUE,
                [email |-> email, is_returning_user |-> user_data # None,
                 user_data |-> user_data],
                NoneStr,
                [validation_type |-> "email", returning_user_check |-> last_name # None])

(***************************************************************************)
(* PhoneValidator.  libphonenumber is outside the repository: PhoneBook is *)
(* the numbers it holds valid, each with its country calling code, and a   *)
(* text is read as the number left when its formatting is dropped.         *)
(***************************************************************************)
PhoneBook ==
    {[e164 |-> <<"+","1","6","5","0","2","5","3","0","0","0","0">>,
      country_code |-> <<"+","1">>]}

Normalized(text) == FilterIn(text, Digits \cup {"+"})

\* phonenumbers.parse + is_valid_number + format_number(E164)
phonenumbers_parse(text) ==
    LET hit == {p \in PhoneBook : p.e164 = Normalized(text)} IN
    IF hit # {} THEN <<"valid", CHOOSE p \in hit : TRUE>>
    ELSE IF FilterIn(text, Digits) = << >> THEN <<"NumberParseException">>
    ELSE <<"invalid">>

extract_phone_from_text(text) ==
    LET parsed == phonenumbers_parse(text) IN
    IF parsed[1] = "valid" THEN <<parsed[2].e164>> ELSE None

PhoneValidator_validate(phone_in) ==
    LET phone_input == Strip(phone_in) IN
    IF phone_input = << >>
    THEN ValidationResult(FALSE, None, "Please provide a phone number.", None)
    ELSE LET parsed == phonenumbers_parse(phone_input) IN
         IF parsed[1] = "NumberParseException"
         THEN ValidationResult(FALSE, None,
                  "That doesn't look like a phone number. Please check and try again.", None)
         ELSE IF parsed[1] = "invalid"
         THEN ValidationResult(FALSE, None,
                  "That doesn't appear to be a valid phone number. Please include your country code (e.g., +1 for US).",
                  None)
         ELSE ValidationResult(TRUE,
                  [phone |-> parsed[2].e164, country_code |-> parsed[2].country_code],
                  NoneStr,
                  [validation_type |-> "phone"])

(***************************************************************************)
(* OTPValidator                                                            *)
(***************************************************************************)
\* A variant that stores the code itself; C25_PlaintextNotPersisted tells it
\* from hash_otp.
hash_otp_plain(otp) == otp

\* hashlib.sha256(f"{otp}{salt}").hexdigest(), taken to be free of collisions:
\* a string that is the digest of the code followed by the salt
hash_otp(otp) == <<"sha256">> \o otp \o <<Salt>>

\* secrets.compare_digest
compare_digest(a, b) == a = b

OTPData(user_id, otp_hash, expires_at, attempts, max_attempts, email_sent_to) ==
    [user_id |-> user_id, otp_hash |-> otp_hash, expires_at |-> expires_at,
     attempts |-> attempts, max_attempts |-> max_attempts,
     email_sent_to |-> email_sent_to]

\* A variant whose codes live two periods; C26_IssuanceSetsOtpFields tells it
\* from create_otp_data.
create_otp_data_lasting(user_id, email, plain_otp, t) ==
    <<plain_otp,
      OTPData(user_id, hash_otp(plain_otp), t + 2 * OTP_EXPIRY_MINUTES, 0,
              MAX_ATTEMPTS, email)>>

\* `plain_otp` is what generate_otp drew, `t` the time of the call
create_otp_data(user_id, email, plain_otp, t) ==
    <<plain_otp,
      OTPData(user_id, hash_otp(plain_otp), t + OTP_EXPIRY_MINUTES, 0, MAX_ATTEMPTS, email)>>

\* A variant that takes the expiry instant itself as expired (now >= expires_at);
\* C5_ExpiryStrictlyAfter tells it from Expired.
ExpiredAtExpiry(t, expires_at) == t >= expires_at

\* now > expires_at
Expired(t, expires_at) == t > expires_at

\* A variant that allows one attempt more (attempts > max_attempts);
\* C4_LockedAfterMaxAttempts tells it from Exhausted.
ExhaustedOneLate(otp_data) == otp_data.attempts > otp_data.max_attempts

\* otp_data.attempts >= otp_data.max_attempts
Exhausted(otp_data) == otp_data.attempts >= otp_data.max_attempts

OTPValidator_validate(user_input, otp_data, t) ==
    LET digits_only == FilterIn(user_input, Digits) IN
    IF Len(digits_only) # OTP_LENGTH
    THEN ValidationResult(FALSE, None,
             "Please enter a " \o ToString(OTP_LENGTH) \o "-digit code.",
             [validation_type |-> "otp", error_type |-> "invalid_length"])
    ELSE IF Expired(t, otp_data.expires_at)
    THEN ValidationResult(FALSE, None,
             "This code has expired. Please request a new one.",
             [validation_type |-> "otp", error_type |-> "expired"])
    ELSE IF Exhausted(otp_data)
    THEN ValidationResult(FALSE, None,
             "Too many failed attempts. Please request a new code.",
             [validation_type |-> "otp", error_type |-> "max_attempts"])
    ELSE IF compare_digest(hash_otp(digits_only), otp_data.otp_hash)
    THEN ValidationResult(TRUE,
             [user_id |-> otp_data.user_id, verified_at |-> t],
             NoneStr,
             [validation_type |-> "otp"])
    ELSE LET remaining_attempts == otp_data.max_attempts - (otp_data.attempts + 1) IN
         ValidationResult(FALSE, None,
             IF remaining_attempts > 0
             THEN "Invalid code. You have " \o ToString(remaining_attempts)
                      \o " attempt(s) remaining."
             ELSE "Invalid code. No attempts remaining. Please request a new code.",
             [validation_type |-> "otp", error_type |-> "invalid_code",
              attempts_remaining |-> remaining_attempts])

(***************************************************************************)
(* UserState and User (models.py)                                          *)
(***************************************************************************)
UserState(user_id, current_step, completed_steps, data) ==
    [user_id |-> user_id, current_step |-> current_step,
     completed_steps |-> completed_steps, data |-> data,
     terms_agreed |-> FALSE, terms_agreed_at |-> None,
     otp_hash |-> None, otp_expires_at |-> None,
     failed_otp_attempts |-> 0, max_otp_attempts |-> max_otp_attempts_default]

User(user_id, email, first_name, last_name, phone, country_code, verified, last_login) ==
    [user_id |-> user_id, email |-> email, first_name |-> first_name,
     last_name |-> last_name, phone |-> phone, country_code |-> country_code,
     verified |-> verified, last_login |-> last_login]

(***************************************************************************)
(* StateMachine: the step handlers.  Each returns the context handed to    *)
(* the response generator, the state it returns, the validator's result    *)
(* (None where no validator runs), the OTP mail it asked SendGrid to send  *)
(* and the user record it wrote.                                           *)
(***************************************************************************)
Handled(ctx, state, result, mail, wrote) ==
    [ctx |-> ctx, state |-> state, result |-> result, mail |-> mail, wrote |-> wrote]

\* A variant that compares without lowering the message;
\* C30_TermsAcceptance tells it from TermsAccepted.
TermsAccepted_cased(message) ==
    \/ message = mTermsAccepted
    \/ Contains(message, <<"a","c","c","e","p","t">>)
    \/ Contains(message, <<"a","g","r","e","e">>)

\* message == "TERMS_ACCEPTED" or "accept" in message.lower() or "agree" in message.lower()
TermsAccepted(message) ==
    \/ message = mTermsAccepted
    \/ Contains(Lower(message), <<"a","c","c","e","p","t">>)
    \/ Contains(Lower(message), <<"a","g","r","e","e">>)

\* A variant that advances without recording the marker; C3_CanonicalRun tells
\* it from terms_accepted.
terms_accepted_unmarked(state, t) ==
    [state EXCEPT
        !.data = Put(@, "terms_agreed_at", t),
        !.terms_agreed = TRUE,
        !.terms_agreed_at = <<t>>,
        !.current_step = AWAITING_NAME]

\* the assignments of the accepting branch
terms_accepted(state, t) ==
    [state EXCEPT
        !.completed_steps = Append(@, "terms_agreed"),
        !.data = Put(@, "terms_agreed_at", t),
        !.terms_agreed = TRUE,
        !.terms_agreed_at = <<t>>,
        !.current_step = AWAITING_NAME]

\* A variant that takes every message as an acceptance; C2_FailureKeepsStep tells
\* it from _handle_terms.
_handle_terms_unasked(state, message, t) ==
    Handled([step |-> "terms_accepted"], terms_accepted(state, t), None, None, None)

_handle_terms(state, message, t) ==
    IF TermsAccepted(message)
    THEN Handled([step |-> "terms_accepted"], terms_accepted(state, t),
             None, None, None)
    ELSE Handled([step |-> "awaiting_terms",
                  error |-> "User has not explicitly accepted terms"],
             state, None, None, None)

\* A variant that starts the list of markers afresh; C19_CompletedStepsAppendOnly
\* tells it from name_collected.
name_collected_restarting(state, result) ==
    [state EXCEPT
        !.data = Put(Put(@, "first_name", result.data["first_name"]),
                     "last_name", result.data["last_name"]),
        !.completed_steps = <<"name_collected">>,
        !.current_step = AWAITING_EMAIL]

\* A variant that goes from the name straight to the phone step;
\* C1_SingleSuccessor tells it from name_collected.
name_collected_skipping(state, result) ==
    [state EXCEPT
        !.data = Put(Put(@, "first_name", result.data["first_name"]),
                     "last_name", result.data["last_name"]),
        !.completed_steps = Append(@, "name_collected"),
        !.current_step = AWAITING_PHONE]

\* A variant that keeps the first name only; C35_ProgressMatchesData tells it
\* from name_collected.
name_collected_first_only(state, result) ==
    [state EXCEPT
        !.data = Put(@, "first_name", result.data["first_name"]),
        !.completed_steps = Append(@, "name_collected"),
        !.current_step = AWAITING_EMAIL]

\* the assignments of the success branch
name_collected(state, result) ==
    [state EXCEPT
        !.data = Put(Put(@, "first_name", result.data["first_name"]),
                     "last_name", result.data["last_name"]),
        !.completed_steps = Append(@, "name_collected"),
        !.current_step = AWAITING_EMAIL]

_handle_name(state, message, extracted) ==
    LET result == NameValidator_validate(message, extracted) IN
    IF result.success
    THEN Handled([step |-> "name_collected",
                  first_name |-> result.data["first_name"],
                  last_name |-> result.data["last_name"]],
             name_collected(state, result),
             <<result>>, None, None)
    ELSE Handled([step |-> "name_incomplete",
                  error |-> result.error_message,
                  first_name |-> Get(result.data, "first_name", None)],
             state, <<result>>, None, None)

\* SecurityManager.mask_phone: the country code, the first three digits and
\* the last four of a number in E.164 form
Stars == <<"*","*","*">>
IsDigits(text) == text # << >> /\ \A i \in DOMAIN text : text[i] \in Digits
mask_phone(phone) ==
    IF Len(phone) < 4 THEN Stars
    ELSE IF phone[1] = "+"
    THEN IF Len(phone) > 8
         THEN LET cut == IF IsDigits(SubSeq(phone, 2, 4)) /\ phone[5] \notin Digits THEN 4
                         ELSE IF IsDigits(SubSeq(phone, 2, 3)) /\ phone[4] \notin Digits
                         THEN 3
                         ELSE 2
                  country_code == SubSeq(phone, 1, cut)
                  rest == SubSeq(phone, cut + 1, Len(phone))
                  last_part == SubSeq(rest, Len(rest) - 3, Len(rest))
              IN IF Len(rest) >= 7
                 THEN country_code \o <<" ">> \o SubSeq(rest, 1, 3) \o <<"-">>
                          \o Stars \o <<"-">> \o last_part
                 ELSE IF Len(rest) >= 4
                 THEN country_code \o <<" ">> \o Stars \o <<"-">> \o last_part
                 ELSE country_code \o <<" ">> \o Stars
         ELSE SubSeq(phone, 1, 3) \o Stars
    ELSE IF Len(phone) > 6
    THEN SubSeq(phone, 1, 2) \o Stars \o SubSeq(phone, Len(phone) - 1, Len(phone))
    ELSE Stars

\* A variant that takes a returning user as verified already;
\* C24_ReturningUserVerifies tells it from returning_user.
returning_user_trusted(stored, user_data) ==
    [stored EXCEPT
        !.data = Put(Put(Put(@, "returning_user", TRUE),
                         "existing_phone", user_data[1].phone),
                     "existing_country_code", user_data[1].country_code),
        !.current_step = ACTIVE]

\* A variant that takes the stored phone for good and waits for a code that
\* was never issued; C34_CodeToValidateAgainst tells it from returning_user.
returning_user_awaiting_code(stored, user_data) ==
    [stored EXCEPT
        !.data = Put(Put(Put(@, "returning_user", TRUE),
                         "existing_phone", user_data[1].phone),
                     "existing_country_code", user_data[1].country_code),
        !.current_step = AWAITING_OTP]

\* the assignments of the returning-user branch
returning_user(stored, user_data) ==
    [stored EXCEPT
        !.data = Put(Put(Put(@, "returning_user", TRUE),
                         "existing_phone", user_data[1].phone),
                     "existing_country_code", user_data[1].country_code),
        !.current_step = AWAITING_PHONE]

_handle_email(state, message, db, query_ok) ==
    LET last_name == IF "last_name" \in DOMAIN state.data
                     THEN <<state.data["last_name"]>> ELSE None
        extracted_email == extract_email_from_text(message)
        email_to_validate == IF extracted_email # None THEN extracted_email[1]
                             ELSE Strip(message)
        result == EmailValidator_validate(db, email_to_validate, last_name, query_ok)
    IN
    IF result.success
    THEN LET email == result.data.email
             is_returning == result.data.is_returning_user
             user_data == result.data.user_data
             stored == [state EXCEPT
                           !.data = Put(@, "email", email),
                           !.completed_steps = Append(@, "email_collected")]
         IN
         IF is_returning /\ user_data # None
         THEN Handled([step |-> "email_returning_user",
                       first_name |-> Get(state.data, "first_name", None),
                       email |-> email,
                       is_returning_user |-> TRUE,
                       phone_masked |-> IF user_data[1].phone # << >>
                                        THEN mask_phone(user_data[1].phone)
                                        ELSE Stars],
                  returning_user(stored, user_data),
                  <<result>>, None, None)
         ELSE Handled([step |-> "email_collected", email |-> email],
                  [stored EXCEPT
                      !.data = Put(@, "returning_user", FALSE),
                      !.current_step = AWAITING_PHONE],
                  <<result>>, None, None)
    ELSE Handled([step |-> "email_invalid", error |-> result.error_message],
             state, <<result>>, None, None)

\* A variant that advances whatever send_otp_email returned;
\* C9_AdvanceOnlyIfSent tells it from otp_dispatched.
otp_dispatched_unchecked(issued, email_sent) ==
    [issued EXCEPT !.current_step = AWAITING_OTP]

\* if email_sent: state.current_step = AWAITING_OTP; else the state as it is
otp_dispatched(issued, email_sent) ==
    IF email_sent THEN [issued EXCEPT !.current_step = AWAITING_OTP] ELSE issued

\* `plain` is the code generate_otp drew, `email_sent` what send_otp_email returned
_handle_phone(state, message, t, plain, email_sent) ==
    LET extracted_phone == extract_phone_from_text(message)
        phone_to_validate == IF extracted_phone # None THEN extracted_phone[1]
                             ELSE message
        result == PhoneValidator_validate(phone_to_validate)
    IN
    IF result.success
    THEN LET otp == create_otp_data(state.user_id, state.data["email"], plain, t)
             plain_otp == otp[1]
             otp_data == otp[2]
             issued == [state EXCEPT
                           !.data = Put(Put(@, "phone", result.data.phone),
                                        "country_code", result.data.country_code),
                           !.completed_steps = Append(@, "phone_collected"),
                           !.otp_hash = <<otp_data.otp_hash>>,
                           !.otp_expires_at = <<otp_data.expires_at>>,
                           !.failed_otp_attempts = 0]
             mail == <<[to_email |-> state.data["email"], otp_code |-> plain_otp,
                        sent |-> email_sent]>>
         IN
         Handled(IF email_sent
                 THEN [step |-> "otp_sent", email |-> state.data["email"]]
                 ELSE [step |-> "otp_send_failed",
                       error |-> "Failed to send verification email"],
                 otp_dispatched(issued, email_sent),
                 <<result>>, mail, None)
    ELSE Handled([step |-> "phone_invalid", error |-> result.error_message],
             state, <<result>>, None, None)

\* A variant that leaves the counter alone; C8_MismatchCountsOnce tells it from
\* otp_failed.
otp_failed_uncounted(state, otp_data) == state

\* the assignment of the failure branch
otp_failed(state, otp_data) ==
    [state EXCEPT !.failed_otp_attempts = otp_data.attempts + 1]

\* A variant that stops at VERIFIED, the step the enumeration lists before
\* ACTIVE; C21_StepsInUse tells it from otp_verified.
otp_verified_unactivated(state) ==
    [state EXCEPT
        !.completed_steps = Append(@, "otp_verified"),
        !.current_step = VERIFIED]

\* the assignments of the success branch
otp_verified(state) ==
    [state EXCEPT
        !.completed_steps = Append(@, "otp_verified"),
        !.current_step = ACTIVE]

\* `create_ok` is whether the Firestore write of create_user went through
_handle_otp(state, message, t, create_ok) ==
    LET otp_data == OTPData(state.user_id, state.otp_hash[1], state.otp_expires_at[1],
                            state.failed_otp_attempts, max_attempts_default,
                            state.data["email"])
        result == OTPValidator_validate(message, otp_data, t)
    IN
    IF result.success
    THEN LET user == User(state.user_id, state.data["email"],
                          state.data["first_name"], state.data["last_name"],
                          state.data["phone"], state.data["country_code"],
                          TRUE, <<t>>)
         IN Handled([step |-> "otp_verified",
                     first_name |-> state.data["first_name"]],
                otp_verified(state),
                <<result>>, None,
                IF create_ok THEN <<user>> ELSE None)
    ELSE Handled([step |-> "otp_invalid",
                  error |-> result.error_message,
                  attempts_remaining |-> Get(result.metadata, "attempts_remaining", 0)],
             otp_failed(state, otp_data),
             <<result>>, None, None)

\* A variant that discards the used code on the first message after
\* verification; C23_ActiveIsAbsorbing tells it from _handle_active_conversation.
_handle_active_conversation_clearing(state, message) ==
    Handled([step |-> "active"],
            [state EXCEPT !.otp_hash = None, !.otp_expires_at = None],
            None, None, None)

\* asyncio.run(self.vertex_agent.send_message(...)) or, when it raises, the fixed
\* text; the state is returned as it came
_handle_active_conversation(state, message) ==
    Handled([step |-> "active"], state, None, None, None)

\* What the collaborators return during one call: the name extraction, whether
\* the users query went through, the code generate_otp drew, what send_otp_email
\* returned and whether create_user's write went through.
FullName ==
    <<"ok", [has_first_name |-> <<TRUE>>, has_last_name |-> <<TRUE>>,
             first_name |-> <<(<<"J","o">>)>>, last_name |-> <<(<<"L","i">>)>>]>>

NoInputs ==
    [extracted |-> <<"raise">>, query_ok |-> TRUE, plain |-> mCode1,
     email_sent |-> TRUE, create_ok |-> TRUE]

\* A variant that sends a step without a handler to the terms handler;
\* C22_SuspendedIsInert tells it from process_message.
process_message_from_terms(state, message, db, t, in) ==
    CASE state.current_step = AWAITING_NAME -> _handle_name(state, message, in.extracted)
      [] state.current_step = AWAITING_EMAIL ->
             _handle_email(state, message, db, in.query_ok)
      [] state.current_step = AWAITING_PHONE ->
             _handle_phone(state, message, t, in.plain, in.email_sent)
      [] state.current_step = AWAITING_OTP ->
             _handle_otp(state, message, t, in.create_ok)
      [] state.current_step = ACTIVE -> _handle_active_conversation(state, message)
      [] OTHER -> _handle_terms(state, message, t)

process_message(state, message, db, t, in) ==
    CASE state.current_step = AWAITING_TERMS -> _handle_terms(state, message, t)
      [] state.current_step = AWAITING_NAME -> _handle_name(state, message, in.extracted)
      [] state.current_step = AWAITING_EMAIL ->
             _handle_email(state, message, db, in.query_ok)
      [] state.current_step = AWAITING_PHONE ->
             _handle_phone(state, message, t, in.plain, in.email_sent)
      [] state.current_step = AWAITING_OTP ->
             _handle_otp(state, message, t, in.create_ok)
      [] state.current_step = ACTIVE -> _handle_active_conversation(state, message)
      [] OTHER -> Handled([step |-> "unknown"], state, None, None, None)

(***************************************************************************)
(* StateMachine.get_or_create_state and save_state                         *)
(***************************************************************************)
\* A variant that returns the new state without writing it;
\* C28_GetOrCreateState tells it from get_or_create_state.
get_or_create_state_unsaved(states, user_id) ==
    IF states[user_id] # None
    THEN <<states[user_id][1], states>>
    ELSE <<UserState(user_id, AWAITING_TERMS, << >>, << >>), states>>

\* <<the state returned, the collection after the call>>
get_or_create_state(states, user_id) ==
    IF states[user_id] # None
    THEN <<states[user_id][1], states>>
    ELSE LET new_state == UserState(user_id, AWAITING_TERMS, << >>, << >>) IN
         <<new_state, [states EXCEPT ![user_id] = <<new_state>>]>>

\* A variant that does not write; C17_SaveOverwrites tells it from save_state.
save_state_dropped(states, state) == states

\* A variant that writes the state under every key; C18_OtherUsersUntouched tells
\* it from save_state.
save_state_unkeyed(states, state) == [u \in DOMAIN states |-> <<state>>]

save_state(states, state) ==
    [states EXCEPT ![state.user_id] = <<state>>]

(***************************************************************************)
(* ToolRegistry (tools/registry.py) and the models it uses (models.py).    *)
(* A dict of parameters is a function from its keys; a raised exception is *)
(* <<"raise", its class>> and a returned value <<"return", the value>>.    *)
(***************************************************************************)
ToolCall(name, parameters) == [name |-> name, parameters |-> parameters]

\* ToolResult(**kwargs): pydantic rejects a call without the required fields
\* tool_name and success, and drops the keywords that are no field.
ToolResultFields == {"tool_name", "success", "result", "error"}

ToolResult(kwargs) ==
    IF {"tool_name", "success"} \subseteq DOMAIN kwargs
    THEN <<"return", [k \in DOMAIN kwargs \cap ToolResultFields |-> kwargs[k]]>>
    ELSE <<"raise", "ValidationError">>

\* register_tool: self.tools[name] = {...}; the handler is known by the tool's name
register_tool(registry, name, required, requires_auth) ==
    [n \in DOMAIN registry \cup {name} |->
        IF n = name
        THEN [name |-> name, required |-> required, handler |-> name,
              requires_auth |-> requires_auth]
        ELSE registry[n]]

_register_builtin_tools ==
    register_tool(
        register_tool(
            register_tool(<< >>, "schedule_appointment",
                          <<"date", "time", "purpose">>, TRUE),
            "get_available_slots", <<"date">>, TRUE),
        "cancel_appointment", <<"appointment_id">>, TRUE)

\* the first parameter of `required`, from position i on, that the call lacks
RECURSIVE FirstMissing(_, _, _)
FirstMissing(required, parameters, i) ==
    IF i > Len(required) THEN None
    ELSE IF required[i] \notin DOMAIN parameters THEN <<required[i]>>
    ELSE FirstMissing(required, parameters, i + 1)

\* A variant that looks the name up and does not look at the parameters;
\* C15_ValidateToolCall tells it from validate_tool_call.
validate_tool_call_by_name(registry, tool_call) ==
    IF tool_call.name \notin DOMAIN registry
    THEN <<FALSE, <<"Tool '" \o tool_call.name \o "' not found in registry">> >>
    ELSE <<TRUE, None>>

\* <<is_valid, error_msg>>
validate_tool_call(registry, tool_call) ==
    IF tool_call.name \notin DOMAIN registry
    THEN <<FALSE, <<"Tool '" \o tool_call.name \o "' not found in registry">> >>
    ELSE LET missing == FirstMissing(registry[tool_call.name].required,
                                     tool_call.parameters, 1) IN
         IF missing # None
         THEN <<FALSE, <<"Missing required parameter: " \o missing[1]>> >>
         ELSE <<TRUE, None>>

\* The built-in handlers read the required parameters only and return a dict.
handler(name, parameters) == <<"return", [tool |-> name, parameters |-> parameters]>>

\* what the call did: the handlers it invoked, in order, and how it ended
Executed(invoked, outcome) == [invoked |-> invoked, outcome |-> outcome]

\* A variant that runs the handler of a registered tool before it validates the
\* call; C12_NoHandlerForInvalidCall tells it from execute_tool.
execute_tool_eagerly(registry, tool_call, user_id) ==
    LET checked == validate_tool_call(registry, tool_call) IN
    Executed(IF tool_call.name \in DOMAIN registry THEN <<tool_call.name>> ELSE << >>,
             ToolResult([success |-> FALSE, error |-> checked[2]]))

execute_tool(registry, tool_call, user_id) ==
    LET checked == validate_tool_call(registry, tool_call) IN
    IF ~checked[1]
    THEN Executed(<< >>, ToolResult([success |-> FALSE, error |-> checked[2]]))
    ELSE LET result_data == handler(registry[tool_call.name].handler,
                                    tool_call.parameters)
             returned == IF result_data[1] = "return"
                         THEN ToolResult([success |-> TRUE, data |-> result_data[2]])
                         ELSE result_data
         IN Executed(<<tool_call.name>>,
                IF returned[1] = "return" THEN returned
                ELSE ToolResult([success |-> FALSE, error |-> <<returned[2]>>]))

(***************************************************************************)
(* The chat endpoint (main.py)                                             *)
(***************************************************************************)
\* The Authorization header of a request: none, a token for the request's user,
\* a token that does not verify, a token for another user.
AuthHeaders == {"none", "valid", "invalid", "mismatch"}
Rejected(auth) == auth \in {"invalid", "mismatch"}

\* What the response generator returned: plain text, or "TOOL_CALL:<name>:<dict>"
\* naming a tool call.
Reply(kind, call) == [kind |-> kind, call |-> call]

ChatCalls == {ToolCall("get_available_slots", [k \in {"date"} |-> "v"])}

Replies == {Reply("text", None)} \cup {Reply("TOOL_CALL:", <<c>>) : c \in ChatCalls}

\* The branch of chat for a reply that starts with "TOOL_CALL:": None for any
\* other reply, else what execute_tool did.
ToolBranch(user_id, reply) ==
    IF reply.kind = "TOOL_CALL:"
    THEN <<execute_tool(tools, reply.call[1], user_id)>>
    ELSE None

\* Whether the endpoint gets as far as save_state: execute_tool has returned, and
\* the result is read through .error (through .data, which ToolResult has not,
\* when it reports success).
Completes(branch) ==
    \/ branch = None
    \/ /\ branch[1].outcome[1] = "return"
       /\ ~branch[1].outcome[2].success

\* The step a request for user_id is processed in.
StepOf(user_id) ==
    IF user_states[user_id] = None THEN AWAITING_TERMS
    ELSE user_states[user_id][1].current_step

\* The canonical message of each step, from what the user sends and what the
\* collaborators answer.
Canonical(state, message, in, t) ==
    CASE state.current_step = AWAITING_TERMS -> message \in {mTermsAccepted, mIAgree}
      [] state.current_step = AWAITING_NAME ->
             Strip(message) # << >> /\ in.extracted = FullName
      [] state.current_step = AWAITING_EMAIL -> message \in {mEmail, mEmailInText}
      [] state.current_step = AWAITING_PHONE -> message = mPhone /\ in.email_sent
      [] state.current_step = AWAITING_OTP ->
             /\ outbox[state.user_id] # None
             /\ FilterIn(message, Digits) = outbox[state.user_id][1]
             /\ t <= state.otp_expires_at[1]
      [] OTHER -> FALSE

NoTrack == [streak |-> 0, struck |-> FALSE]

\* The history of submissions against the stored code, after a request that
\* returned h from state and was saved.
Tracked(track, state, h, message) ==
    IF state.current_step = AWAITING_PHONE /\ h.state.otp_hash # state.otp_hash
    THEN NoTrack
    ELSE IF state.current_step = AWAITING_OTP
    THEN LET digits == FilterIn(message, Digits)
             wrong == Len(digits) = OTP_LENGTH /\ hash_otp(digits) # state.otp_hash[1]
             streak == IF wrong THEN track.streak + 1 ELSE 0
         IN [track EXCEPT !.streak = streak,
                          !.struck = @ \/ streak >= MAX_ATTEMPTS]
    ELSE track

Observation(user_id, message, status, pre, h, t, canonical, branch) ==
    [user_id |-> user_id, message |-> message, status |-> status, pre |-> pre,
     post |-> h.state, result |-> h.result, ctx |-> h.ctx, mail |-> h.mail,
     wrote |-> h.wrote, at |-> t, track |-> otp_track[user_id],
     canonical |-> canonical, tool |-> branch]

\* The endpoint for a request with the given Authorization header: the token
\* is verified only when the header is there.
chat_as(user_id, message, in, reply, auth) ==
    /\ last = << >>
    /\ auth \in AuthHeaders
    /\ ~Rejected(auth)
    /\ \E loaded \in {get_or_create_state(user_states, user_id)} :
       \E state \in {loaded[1]} :
       \E h \in {process_message(state, message, users, now, in)} :
       \E branch \in {ToolBranch(user_id, reply)} :
       \E ok \in {Completes(branch)} :
       \E canonical \in {ok /\ Canonical(state, message, in, now)} :
       /\ user_states' = IF ok THEN save_state(loaded[2], h.state) ELSE loaded[2]
       /\ users' = IF h.wrote # None
                   THEN [users EXCEPT ![user_id] = h.wrote] ELSE users
       /\ outbox' = IF h.mail # None /\ h.mail[1].sent
                    THEN [outbox EXCEPT ![user_id] = <<h.mail[1].otp_code>>]
                    ELSE outbox
       /\ otp_track' = IF ok
                       THEN [otp_track EXCEPT
                                ![user_id] = Tracked(@, state, h, message)]
                       ELSE otp_track
       /\ canon' = [canon EXCEPT
                       ![user_id] = IF state.current_step = ACTIVE /\ ok THEN @
                                    ELSE IF @ >= 0 /\ canonical THEN @ + 1
                                    ELSE -1]
       /\ IF branch = None THEN invocations' = invocations
          ELSE /\ invocations + Len(branch[1].invoked) <= MaxInvocations
               /\ invocations' = invocations + Len(branch[1].invoked)
       /\ last' = <<Observation(user_id, message, IF ok THEN 200 ELSE 500,
                                state, h, now, canonical, branch)>>
    /\ UNCHANGED <<now, tools, inflight,
                   compared, booking>>

chat(user_id, message, in, reply) ==
    \E auth \in AuthHeaders : chat_as(user_id, message, in, reply, auth)

ChatTerms(user_id) ==
    /\ StepOf(user_id) = AWAITING_TERMS
    /\ \E message \in Messages, reply \in Replies :
           chat(user_id, message, NoInputs, reply)

ChatName(user_id) ==
    /\ StepOf(user_id) = AWAITING_NAME
    /\ \E message \in Messages, reply \in Replies,
          extracted \in NameExtractions :
           chat(user_id, message, [NoInputs EXCEPT !.extracted = extracted], reply)

ChatEmail(user_id) ==
    /\ StepOf(user_id) = AWAITING_EMAIL
    /\ \E message \in Messages, reply \in Replies,
          query_ok \in BOOLEAN :
           chat(user_id, message, [NoInputs EXCEPT !.query_ok = query_ok], reply)

ChatPhone(user_id) ==
    /\ StepOf(user_id) = AWAITING_PHONE
    /\ Len(user_states[user_id][1].completed_steps) < MaxCompleted
    /\ \E message \in Messages, reply \in Replies,
          plain \in Codes, email_sent \in BOOLEAN :
           chat(user_id, message,
                [NoInputs EXCEPT !.plain = plain, !.email_sent = email_sent],
                reply)

ChatOtp(user_id) ==
    /\ StepOf(user_id) = AWAITING_OTP
    /\ user_states[user_id][1].failed_otp_attempts < MaxFailed
    /\ \E message \in Messages, reply \in Replies,
          create_ok \in BOOLEAN :
           chat(user_id, message, [NoInputs EXCEPT !.create_ok = create_ok], reply)

\* At ACTIVE the reply is the agent's answer fetched with asyncio.run, which
\* raises inside the endpoint's running event loop: the handler falls back to
\* its fixed text.
ChatActive(user_id) ==
    /\ StepOf(user_id) = ACTIVE
    /\ \E message \in Messages :
           chat(user_id, message, NoInputs, Reply("text", None))

\* A request whose bearer token does not verify or names another user: the
\* HTTPException raised for it is caught by the endpoint's own handler.
ChatUnauthorized(user_id) ==
    /\ last = << >>
    /\ \E auth \in AuthHeaders : Rejected(auth)
    /\ UNCHANGED vars

\* The endpoint returns its ChatResponse (or the error) to the caller.
Respond ==
    /\ last # << >>
    /\ last' = << >>
    /\ UNCHANGED <<user_states, users, now, outbox, otp_track, canon, tools,
                   invocations, inflight,
                   compared, booking>>

\* Time passes between two requests, one validity period of a code at a time.
Tick ==
    /\ last = << >>
    /\ now + OTP_EXPIRY_MINUTES <= MaxTime
    /\ now' = now + OTP_EXPIRY_MINUTES
    /\ UNCHANGED <<user_states, users, outbox, otp_track, canon, last, tools,
                   invocations, inflight,
                   compared, booking>>

\* A record of an earlier session, already in the users collection.
StoredUser ==
    User("u0", mEmail, <<"J","o">>, <<"L","i">>,
         <<"+","1","6","5","0","2","5","3","0","0","0","0">>, <<"+","1">>, TRUE, <<0>>)

Init ==
    /\ user_states = [u \in Users |-> None]
    /\ users = [u \in Users \cup {"u0"} |-> IF u = "u0" THEN <<StoredUser>> ELSE None]
    /\ now = 0
    /\ outbox = [u \in Users |-> None]
    /\ otp_track = [u \in Users |-> NoTrack]
    /\ canon = [u \in Users |-> 0]
    /\ last = << >>
    /\ tools = _register_builtin_tools
    /\ invocations = 0
    /\ inflight = [i \in Instances |-> None]
    /\ compared = 0
    /\ availability_slots = << >>
    /\ appointments = << >>
    /\ time_slots = << >>

Next ==
    \/ \E u \in Users : ChatTerms(u)
    \/ \E u \in Users : ChatName(u)
    \/ \E u \in Users : ChatEmail(u)
    \/ \E u \in Users : ChatPhone(u)
    \/ \E u \in Users : ChatOtp(u)
    \/ \E u \in Users : ChatActive(u)
    \/ \E u \in Users : ChatUnauthorized(u)
    \/ Respond
    \/ Tick

Spec == Init /\ [][Next]_vars

(***************************************************************************)
(* Two server instances behind the same Firestore collections, each        *)
(* working through chat for one request at a time: it loads the state,     *)
(* processes the message on its copy, saves the copy and answers.  Within  *)
(* one instance the endpoint runs a request to its end before the next.    *)
(***************************************************************************)
Clients == {"u1", "u2"}

\* What the collaborators answer in these runs: the full name, the code 123456,
\* every mail and every write accepted.
Cooperative ==
    [extracted |-> FullName, query_ok |-> TRUE, plain |-> mCode1,
     email_sent |-> TRUE, create_ok |-> TRUE]

\* What a client sends at a step: the message the step asks for, a wrong code
\* at the OTP step, or a blank message.  A client is followed through its
\* first MaxDepth steps.
MessagesAt(step) ==
    {mBlank} \cup
    CASE step = AWAITING_TERMS -> {mTermsAccepted}
      [] step = AWAITING_NAME -> {mIAgree}
      [] step = AWAITING_EMAIL -> {mEmail}
      [] step = AWAITING_PHONE -> {mPhone}
      [] step = AWAITING_OTP -> {mCode1, mCode2}
      [] OTHER -> {}

Request(user_id, message, phase, state, h) ==
    [user_id |-> user_id, message |-> message, phase |-> phase, state |-> state,
     h |-> h]

\* chat up to get_or_create_state
Load(i, user_id) ==
    /\ inflight[i] = None
    /\ \E loaded \in {get_or_create_state(user_states, user_id)} :
       \E message \in MessagesAt(loaded[1].current_step) :
           /\ Len(loaded[1].completed_steps) < MaxDepth
           /\ loaded[1].failed_otp_attempts < MaxFailed
           /\ user_states' = loaded[2]
           /\ inflight' = [inflight EXCEPT
                              ![i] = <<Request(user_id, message, "loaded",
                                               loaded[1], None)>>]
    /\ UNCHANGED <<users, now, outbox, otp_track, canon, last, tools, invocations,
                   compared, booking>>

\* chat from process_message to the reply of the response generator, a plain text
Process(i) ==
    /\ inflight[i] # None
    /\ inflight[i][1].phase = "loaded"
    /\ \E r \in {inflight[i][1]} :
       \E h \in {process_message(r.state, r.message, users, now, Cooperative)} :
           /\ users' = IF h.wrote # None
                       THEN [users EXCEPT ![r.user_id] = h.wrote] ELSE users
           /\ outbox' = IF h.mail # None /\ h.mail[1].sent
                        THEN [outbox EXCEPT ![r.user_id] = <<h.mail[1].otp_code>>]
                        ELSE outbox
           /\ inflight' = [inflight EXCEPT
                              ![i] = <<[r EXCEPT !.phase = "processed", !.h = <<h>>]>>]
    /\ UNCHANGED <<user_states, now, otp_track, canon, last, tools, invocations,
                   compared, booking>>

\* chat at save_state
Save(i) ==
    /\ inflight[i] # None
    /\ inflight[i][1].phase = "processed"
    /\ user_states' = save_state(user_states, inflight[i][1].h[1].state)
    /\ inflight' = [inflight EXCEPT ![i] = <<[@[1] EXCEPT !.phase = "saved"]>>]
    /\ UNCHANGED <<users, now, outbox, otp_track, canon, last, tools, invocations,
                   compared, booking>>

\* chat returns its ChatResponse
Answer(i) ==
    /\ inflight[i] # None
    /\ inflight[i][1].phase = "saved"
    /\ inflight' = [inflight EXCEPT ![i] = None]
    /\ UNCHANGED <<user_states, users, now, outbox, otp_track, canon, last, tools,
                   invocations,
                   compared, booking>>

InitConcurrent ==
    /\ user_states = [u \in Clients |-> None]
    /\ users = [u \in Clients \cup {"u0"} |-> IF u = "u0" THEN <<StoredUser>> ELSE None]
    /\ now = 0
    /\ outbox = [u \in Clients |-> None]
    /\ otp_track = [u \in Clients |-> NoTrack]
    /\ canon = [u \in Clients |-> 0]
    /\ last = << >>
    /\ tools = _register_builtin_tools
    /\ invocations = 0
    /\ inflight = [i \in Instances |-> None]
    /\ compared = 0
    /\ availability_slots = << >>
    /\ appointments = << >>
    /\ time_slots = << >>

NextConcurrent ==
    \/ \E i \in Instances, u \in Clients : Load(i, u)
    \/ \E i \in Instances : Process(i)
    \/ \E i \in Instances : Save(i)
    \/ \E i \in Instances : Answer(i)

SpecConcurrent == InitConcurrent /\ [][NextConcurrent]_vars

(***************************************************************************)
(* The registry on its own: validate_tool_call and execute_tool applied to *)
(* every call over a few tool names and parameter keys.                    *)
(***************************************************************************)
ToolNames ==
    {"schedule_appointment", "get_available_slots", "cancel_appointment",
     "transfer_money"}
ParamKeys == {"date", "time", "purpose", "appointment_id"}
ToolCalls ==
    {ToolCall(name, [k \in keys |-> "v"]) : name \in ToolNames, keys \in SUBSET ParamKeys}

\* What a call to the registry was given and what it did; `did` is None for
\* validate_tool_call alone.
ToolObservation(tool_call, checked, did) ==
    [call |-> tool_call, checked |-> checked, did |-> did, registry |-> tools,
     invocations_before |-> invocations]

ValidateToolCall(tool_call) ==
    /\ last' = <<ToolObservation(tool_call, validate_tool_call(tools, tool_call), None)>>
    /\ UNCHANGED <<user_states, users, now, outbox, otp_track, canon, tools,
                   invocations, inflight,
                   compared, booking>>

ExecuteTool(tool_call, user_id) ==
    \E did \in {execute_tool(tools, tool_call, user_id)} :
        /\ invocations + Len(did.invoked) <= MaxInvocations
        /\ invocations' = invocations + Len(did.invoked)
        /\ last' = <<ToolObservation(tool_call, validate_tool_call(tools, tool_call),
                                     <<did>>)>>
        /\ UNCHANGED <<user_states, users, now, outbox, otp_track, canon, tools,
                       inflight,
                   compared, booking>>

NextTools ==
    \/ \E tool_call \in ToolCalls : ValidateToolCall(tool_call)
    \/ \E tool_call \in ToolCalls, u \in Users : ExecuteTool(tool_call, u)

SpecTools == Init /\ [][NextTools]_vars

(***************************************************************************)
(* A user whose document in user_states an administrator set to SUSPENDED. *)
(* The document is one the flow wrote, at any of its steps, with           *)
(* current_step replaced; chat then serves the user's requests.            *)
(***************************************************************************)
FlowStates ==
    LET db == [u \in Users \cup {"u0"} |-> IF u = "u0" THEN <<StoredUser>> ELSE None]
        s0 == UserState("u1", AWAITING_TERMS, << >>, << >>)
        s1 == _handle_terms(s0, mTermsAccepted, 0).state
        s2 == _handle_name(s1, mIAgree, FullName).state
        s3 == _handle_email(s2, mEmail, db, TRUE).state
        s4 == _handle_phone(s3, mPhone, 0, mCode1, TRUE).state
        s5 == _handle_otp(s4, mCode2, 0, TRUE).state
        s6 == _handle_otp(s4, mCode1, 0, TRUE).state
    IN {s0, s1, s2, s3, s4, s5, s6}

ChatSuspended(user_id) ==
    /\ StepOf(user_id) = SUSPENDED
    /\ \E message \in Messages, reply \in Replies, in \in {NoInputs, Cooperative} :
           chat(user_id, message, in, reply)

InitSuspended ==
    /\ user_states \in
           [Users -> {<<[s EXCEPT !.current_step = SUSPENDED]>> : s \in FlowStates}]
    /\ users = [u \in Users \cup {"u0"} |-> IF u = "u0" THEN <<StoredUser>> ELSE None]
    /\ now = 0
    /\ outbox = [u \in Users |-> None]
    /\ otp_track = [u \in Users |-> NoTrack]
    /\ canon = [u \in Users |-> 0]
    /\ last = << >>
    /\ tools = _register_builtin_tools
    /\ invocations = 0
    /\ inflight = [i \in Instances |-> None]
    /\ compared = 0
    /\ availability_slots = << >>
    /\ appointments = << >>
    /\ time_slots = << >>

NextSuspended ==
    \/ \E u \in Users : ChatSuspended(u)
    \/ Respond
    \/ Tick

SpecSuspended == InitSuspended /\ [][NextSuspended]_vars

(***************************************************************************)
(* A user who keeps writing: every message of Messages is sent again and   *)
(* again, each request is answered, and the collaborators cooperate.       *)
(***************************************************************************)
Send(user_id, message) ==
    /\ StepOf(user_id) = AWAITING_PHONE =>
           Len(user_states[user_id][1].completed_steps) < MaxCompleted
    /\ StepOf(user_id) = AWAITING_OTP =>
           user_states[user_id][1].failed_otp_attempts < MaxFailed
    /\ chat(user_id, message, Cooperative, Reply("text", None))

NextRetry ==
    \/ \E u \in Users, message \in Messages : Send(u, message)
    \/ Respond
    \/ Tick

\* Send(user_id, message) can be taken: no request is being answered and the
\* step is not one the bounds close
CanSend(user_id) ==
    /\ last = << >>
    /\ StepOf(user_id) = AWAITING_PHONE =>
           Len(user_states[user_id][1].completed_steps) < MaxCompleted
    /\ StepOf(user_id) = AWAITING_OTP =>
           user_states[user_id][1].failed_otp_attempts < MaxFailed

\* a Send(user_id, message) step has just been taken
Sent(user_id, message) ==
    /\ last # << >>
    /\ last[1].user_id = user_id
    /\ last[1].message = message

\* Every request is answered, and strong fairness of every Send(u, message),
\* written with the two state predicates above: if Send can be taken again and
\* again, every message is sent again and again.
FairRetry ==
    /\ WF_vars(Respond)
    /\ \A u \in Users :
           \/ <>[](~CanSend(u))
           \/ \A message \in Messages : []<>Sent(u, message)

SpecRetry == Init /\ [][NextRetry]_vars /\ FairRetry

(***************************************************************************)
(* NameValidator.validate on its own: one call per step, on any input and  *)
(* on anything the extraction can return.                                  *)
(***************************************************************************)
NameInputs == Messages \cup {<< >>}

ValidateName ==
    /\ last = << >>
    /\ \E user_input \in NameInputs, extracted \in NameExtractions :
           last' = <<[user_input |-> user_input, extracted |-> extracted,
                      returned |-> NameValidator_validate(user_input, extracted)]>>
    /\ UNCHANGED <<user_states, users, now, outbox, otp_track, canon, tools,
                   invocations, inflight,
                   compared, booking>>

NextName ==
    \/ ValidateName
    \/ Respond

SpecName == Init /\ [][NextName]_vars

(***************************************************************************)
(* Two server instances serving the code submissions of one user: the user *)
(* has been mailed a code and posts codes, the right one or a wrong one,   *)
(* without waiting for the answer to the one before.                       *)
(***************************************************************************)
\* The state of user u1 once the code 123456 has been issued and mailed.
IssuedState ==
    LET db == [u \in Users \cup {"u0"} |-> IF u = "u0" THEN <<StoredUser>> ELSE None]
        s0 == UserState("u1", AWAITING_TERMS, << >>, << >>)
        s1 == _handle_terms(s0, mTermsAccepted, 0).state
        s2 == _handle_name(s1, mIAgree, FullName).state
        s3 == _handle_email(s2, mEmail, db, TRUE).state
    IN _handle_phone(s3, mPhone, 0, mCode1, TRUE).state

\* validate got as far as compare_digest: it accepted the code or found it wrong
Compared(result) ==
    \/ result.success
    \/ Get(result.metadata, "error_type", NoneStr) = "invalid_code"

\* chat up to get_or_create_state, for a code posted at AWAITING_OTP
Submit(i, user_id) ==
    /\ inflight[i] = None
    /\ compared < MaxCompared
    /\ \E loaded \in {get_or_create_state(user_states, user_id)} :
       \E message \in {mCode1, mCode2} :
           /\ loaded[1].current_step = AWAITING_OTP
           /\ loaded[1].failed_otp_attempts < MaxFailed
           /\ user_states' = loaded[2]
           /\ inflight' = [inflight EXCEPT
                              ![i] = <<Request(user_id, message, "loaded",
                                               loaded[1], None)>>]
    /\ UNCHANGED <<users, now, outbox, otp_track, canon, last, tools, invocations,
                   compared, booking>>

\* chat from process_message to the reply, counting the comparisons
Verify(i) ==
    /\ inflight[i] # None
    /\ inflight[i][1].phase = "loaded"
    /\ \E r \in {inflight[i][1]} :
       \E h \in {process_message(r.state, r.message, users, now, Cooperative)} :
           /\ users' = IF h.wrote # None
                       THEN [users EXCEPT ![r.user_id] = h.wrote] ELSE users
           /\ compared' = IF h.result # None /\ Compared(h.result[1])
                          THEN compared + 1 ELSE compared
           /\ inflight' = [inflight EXCEPT
                              ![i] = <<[r EXCEPT !.phase = "processed", !.h = <<h>>]>>]
    /\ UNCHANGED <<user_states, now, outbox, otp_track, canon, last, tools,
                   invocations, booking>>

InitOtpRace ==
    /\ user_states = [u \in Clients |-> IF u = "u1" THEN <<IssuedState>> ELSE None]
    /\ users = [u \in Clients \cup {"u0"} |-> IF u = "u0" THEN <<StoredUser>> ELSE None]
    /\ now = 0
    /\ outbox = [u \in Clients |-> IF u = "u1" THEN <<mCode1>> ELSE None]
    /\ otp_track = [u \in Clients |-> NoTrack]
    /\ canon = [u \in Clients |-> 0]
    /\ last = << >>
    /\ tools = _register_builtin_tools
    /\ invocations = 0
    /\ inflight = [i \in Instances |-> None]
    /\ compared = 0
    /\ availability_slots = << >>
    /\ appointments = << >>
    /\ time_slots = << >>

NextOtpRace ==
    \/ \E i \in Instances, u \in Clients : Submit(i, u)
    \/ \E i \in Instances : Verify(i)
    \/ \E i \in Instances : Save(i)
    \/ \E i \in Instances : Answer(i)

SpecOtpRace == InitOtpRace /\ [][NextOtpRace]_vars

(***************************************************************************)
(* AppointmentService (services/appointment_service.py): customers book    *)
(* and cancel appointments on the slots an administrator created.  A       *)
(* Firestore transaction is one step; cancel_appointment reads the         *)
(* appointment before its transaction, which is a step of its own.         *)
(***************************************************************************)
SlotIds == {"s1", "s2"}
Customers == {"u1", "u2"}

\* The document of an appointment; its id is its place in the collection.
AppointmentDoc(appointment_id, slot_id, user_id, status) ==
    [appointment_id |-> appointment_id, slot_id |-> slot_id, user_id |-> user_id,
     status |-> status]

\* create_appointment: the transaction, or None when it raises ValueError
create_appointment(slots, appts, appointment_data) ==
    IF appointment_data.slot_id \notin DOMAIN slots
    THEN <<None, slots, appts>>
    ELSE IF slots[appointment_data.slot_id] # "available"
    THEN <<None, slots, appts>>
    ELSE LET id == Len(appts) + 1 IN
         <<(<<id>>),
           [slots EXCEPT ![appointment_data.slot_id] = "booked"],
           Append(appts, AppointmentDoc(id, appointment_data.slot_id,
                                        appointment_data.user_id, "confirmed"))>>

CreateAppointment ==
    /\ Len(appointments) < MaxAppointments
    /\ \E slot_id \in SlotIds \cup {"s9"}, user_id \in Customers :
       \E done \in {create_appointment(availability_slots, appointments,
                                       [slot_id |-> slot_id, user_id |-> user_id])} :
           /\ availability_slots' = done[2]
           /\ appointments' = done[3]
    /\ UNCHANGED <<user_states, users, now, outbox, otp_track, canon, last, tools,
                   invocations, inflight, compared, time_slots>>

\* cancel_appointment up to its transaction: get_appointment_by_id and the
\* ownership check; the call returns False when either fails
CancelLookup(i) ==
    /\ inflight[i] = None
    /\ \E appointment_id \in 1..MaxAppointments, user_id \in Customers :
           /\ appointment_id \in DOMAIN appointments
           /\ appointments[appointment_id].user_id = user_id
           /\ inflight' = [inflight EXCEPT
                              ![i] = <<[appointment_id |-> appointment_id,
                                        slot_id |-> appointments[appointment_id].slot_id]>>]
    /\ UNCHANGED <<user_states, users, now, outbox, otp_track, canon, last, tools,
                   invocations, compared, booking>>

\* cancel_in_transaction
CancelCommit(i) ==
    /\ inflight[i] # None
    /\ appointments' = [appointments EXCEPT
                            ![inflight[i][1].appointment_id].status = "cancelled"]
    /\ availability_slots' = [availability_slots EXCEPT
                                  ![inflight[i][1].slot_id] = "available"]
    /\ inflight' = [inflight EXCEPT ![i] = None]
    /\ UNCHANGED <<user_states, users, now, outbox, otp_track, canon, last, tools,
                   invocations, compared, time_slots>>

InitAppointments ==
    /\ user_states = [u \in Users |-> None]
    /\ users = [u \in Users \cup {"u0"} |-> IF u = "u0" THEN <<StoredUser>> ELSE None]
    /\ now = 0
    /\ outbox = [u \in Users |-> None]
    /\ otp_track = [u \in Users |-> NoTrack]
    /\ canon = [u \in Users |-> 0]
    /\ last = << >>
    /\ tools = _register_builtin_tools
    /\ invocations = 0
    /\ inflight = [i \in Instances |-> None]
    /\ compared = 0
    /\ availability_slots = [s \in SlotIds |-> "available"]
    /\ appointments = << >>
    /\ time_slots = << >>

NextAppointments ==
    \/ CreateAppointment
    \/ \E i \in Instances : CancelLookup(i)
    \/ \E i \in Instances : CancelCommit(i)

SpecAppointments == InitAppointments /\ [][NextAppointments]_vars

(***************************************************************************)
(* The agent's booking tool (agent_tools.py) and the administrator's       *)
(* service (services/admin_service.py) work on the collections time_slots  *)
(* and appointments.  Neither uses a transaction.                          *)
(***************************************************************************)
Employees == {"e1"}
Dates == {"d1"}
Times == {"09:00", "10:00", "11:00"}

\* TimeSlot (appointment_models.py), as add_time_slot stores it
TimeSlot(employee_id, date, start_time, is_booked) ==
    [employee_id |-> employee_id, date |-> date, start_time |-> start_time,
     is_booked |-> is_booked]

\* Appointment (appointment_models.py); status defaults to "confirmed"
Appointment(appointment_id, customer_id, employee_id, date, time) ==
    [appointment_id |-> appointment_id, customer_id |-> customer_id,
     employee_id |-> employee_id, date |-> date, time |-> time,
     status |-> "confirmed"]

\* the time_slots query of book_appointment, before its limit(1)
UnbookedSlots(slots, employee_id, date, time) ==
    {id \in DOMAIN slots :
         /\ slots[id].employee_id = employee_id
         /\ slots[id].date = date
         /\ slots[id].start_time = time
         /\ slots[id].is_booked = FALSE}

\* "for slot in slots: slot.reference.update({'is_booked': True})" on the one
\* slot the query returned, if it returned one
MarkBooked(slots, found) ==
    [id \in DOMAIN slots |->
        IF id \in found THEN [slots[id] EXCEPT !.is_booked = TRUE] ELSE slots[id]]

\* agent_tools.book_appointment: <<result, time_slots, appointments>>
book_appointment(slots, appts, employee_id, date, time, customer_id, found) ==
    IF employee_id \notin Employees
    THEN <<[error |-> "Advisor not found"], slots, appts>>
    ELSE <<[success |-> TRUE, appointment_id |-> Len(appts) + 1],
           MarkBooked(slots, found),
           Append(appts, Appointment(Len(appts) + 1, customer_id, employee_id,
                                     date, time))>>

\* AdminService.book_appointment: an unknown employee is "Team Member"
admin_book_appointment(slots, appts, employee_id, date, time, customer_id, found) ==
    <<Appointment(Len(appts) + 1, customer_id, employee_id, date, time),
      MarkBooked(slots, found),
      Append(appts, Appointment(Len(appts) + 1, customer_id, employee_id, date, time))>>

\* what limit(1) leaves of the query's result
LimitOne(matching) ==
    IF matching = {} THEN {{}} ELSE {{id} : id \in matching}

BookAppointment ==
    /\ Len(appointments) < MaxAppointments
    /\ \E employee_id \in Employees \cup {"e9"}, date \in Dates, time \in Times,
          customer_id \in Customers :
       \E found \in LimitOne(UnbookedSlots(time_slots, employee_id, date, time)) :
       \E done \in {book_appointment(time_slots, appointments, employee_id, date, time,
                                     customer_id, found)} :
           /\ time_slots' = done[2]
           /\ appointments' = done[3]
    /\ UNCHANGED <<user_states, users, now, outbox, otp_track, canon, last, tools,
                   invocations, inflight, compared, availability_slots>>

AdminBookAppointment ==
    /\ Len(appointments) < MaxAppointments
    /\ \E employee_id \in Employees \cup {"e9"}, date \in Dates, time \in Times,
          customer_id \in Customers :
       \E found \in LimitOne(UnbookedSlots(time_slots, employee_id, date, time)) :
       \E done \in {admin_book_appointment(time_slots, appointments, employee_id, date,
                                           time, customer_id, found)} :
           /\ time_slots' = done[2]
           /\ appointments' = done[3]
    /\ UNCHANGED <<user_states, users, now, outbox, otp_track, canon, last, tools,
                   invocations, inflight, compared, availability_slots>>

\* AdminService.cancel_appointment: the appointment is cancelled and one slot
\* of its employee, date and time is freed
AdminCancelAppointment ==
    /\ \E appointment_id \in DOMAIN appointments :
       \E matching \in {{id \in DOMAIN time_slots :
                            /\ time_slots[id].employee_id = appointments[appointment_id].employee_id
                            /\ time_slots[id].date = appointments[appointment_id].date
                            /\ time_slots[id].start_time = appointments[appointment_id].time}} :
       \E found \in LimitOne(matching) :
           /\ appointments' = [appointments EXCEPT ![appointment_id].status = "cancelled"]
           /\ time_slots' = [id \in DOMAIN time_slots |->
                                IF id \in found
                                THEN [time_slots[id] EXCEPT !.is_booked = FALSE]
                                ELSE time_slots[id]]
    /\ UNCHANGED <<user_states, users, now, outbox, otp_track, canon, last, tools,
                   invocations, inflight, compared, availability_slots>>

\* the administrator added the slots of e1 at 09:00 and at 10:00
InitBooking ==
    /\ user_states = [u \in Users |-> None]
    /\ users = [u \in Users \cup {"u0"} |-> IF u = "u0" THEN <<StoredUser>> ELSE None]
    /\ now = 0
    /\ outbox = [u \in Users |-> None]
    /\ otp_track = [u \in Users |-> NoTrack]
    /\ canon = [u \in Users |-> 0]
    /\ last = << >>
    /\ tools = _register_builtin_tools
    /\ invocations = 0
    /\ inflight = [i \in Instances |-> None]
    /\ compared = 0
    /\ availability_slots = << >>
    /\ appointments = << >>
    /\ time_slots = [id \in {"slot_1", "slot_2"} |->
                        TimeSlot("e1", "d1", IF id = "slot_1" THEN "09:00" ELSE "10:00",
                                 FALSE)]

NextBooking ==
    \/ BookAppointment
    \/ AdminBookAppointment
    \/ AdminCancelAppointment

SpecBooking == InitBooking /\ [][NextBooking]_vars

(***************************************************************************)
(* The claims.  `last` holds the request being answered: the state it      *)
(* loaded (pre), the state process_message returned (post), the            *)
(* validator's result, and its status (200 when the state was saved, 500   *)
(* when the endpoint raised before save_state).                            *)
(***************************************************************************)
Answering == last # << >>
Obs == last[1]
Stored(user_id) == user_states[user_id][1]

Submitted(message) == FilterIn(message, Digits)
SixDigits(message) == Len(Submitted(message)) = OTP_LENGTH
Matches(state, message) == hash_otp(Submitted(message)) = state.otp_hash[1]
AtOtp == Answering /\ Obs.pre.current_step = AWAITING_OTP

\* The validator of the step the request was processed in reported failure.
ValidatorFailed ==
    IF Obs.pre.current_step = AWAITING_TERMS THEN ~TermsAccepted(Obs.message)
    ELSE Obs.result # None /\ ~Obs.result[1].success

StepOrder ==
    <<AWAITING_TERMS, AWAITING_NAME, AWAITING_EMAIL, AWAITING_PHONE, AWAITING_OTP, ACTIVE>>
Markers ==
    <<"terms_agreed", "name_collected", "email_collected", "phone_collected",
      "otp_verified">>

\* C1: a processed message leaves current_step where it was or moves it to the
\* one successor the transition table gives; the persisted step is the one
\* loaded or the one returned, so no sequence of messages goes back or skips.
C1_SingleSuccessor ==
    Answering =>
        /\ Obs.pre.current_step \in DOMAIN TRANSITIONS
        /\ Obs.post.current_step
               \in {Obs.pre.current_step} \cup TRANSITIONS[Obs.pre.current_step]
        /\ Stored(Obs.user_id).current_step
               = IF Obs.status = 200 THEN Obs.post.current_step
                 ELSE Obs.pre.current_step

C1_Advanced ==
    /\ Answering
    /\ Obs.status = 200
    /\ Obs.pre.current_step = AWAITING_EMAIL
    /\ Stored(Obs.user_id).current_step = AWAITING_PHONE

\* C2: when the step's validator reports failure, current_step after
\* process_message is current_step before it.
C2_FailureKeepsStep ==
    (Answering /\ Obs.pre.current_step \in
         {AWAITING_TERMS, AWAITING_NAME, AWAITING_EMAIL, AWAITING_PHONE, AWAITING_OTP}
     /\ ValidatorFailed)
        => /\ Obs.post.current_step = Obs.pre.current_step
           /\ Stored(Obs.user_id).current_step = Obs.pre.current_step

C2_EmailRejected ==
    /\ Answering
    /\ Obs.status = 200
    /\ Obs.pre.current_step = AWAITING_EMAIL
    /\ Obs.message = mBadEmail
    /\ ValidatorFailed

\* C3: after k canonical messages and no other, a new user is at the k-th
\* successor of AWAITING_TERMS with exactly the first k markers, each
\* canonical message having appended one marker; after the fifth the step is
\* ACTIVE and completed_steps is the five markers in order.
C3_CanonicalRun ==
    /\ \A u \in Users :
           canon[u] >= 0 =>
               /\ canon[u] <= Len(Markers)
               /\ IF user_states[u] = None THEN canon[u] = 0
                  ELSE /\ Stored(u).current_step = StepOrder[canon[u] + 1]
                       /\ Stored(u).completed_steps = SubSeq(Markers, 1, canon[u])
    /\ (Answering /\ Obs.canonical /\ canon[Obs.user_id] >= 1) =>
           /\ Len(Obs.post.completed_steps) = Len(Obs.pre.completed_steps) + 1
           /\ SubSeq(Obs.post.completed_steps, 1, Len(Obs.pre.completed_steps))
                  = Obs.pre.completed_steps

C3_ReachedActive ==
    \E u \in Users :
        /\ canon[u] = 5
        /\ Stored(u).current_step = ACTIVE
        /\ Stored(u).completed_steps = Markers

\* C4: once max_attempts consecutive wrong six-digit codes were submitted
\* against the stored code, every later submission against it is rejected, the
\* right code included, and the step stays AWAITING_OTP.
C4_LockedAfterMaxAttempts ==
    (AtOtp /\ Obs.track.struck) =>
        /\ ~Obs.result[1].success
        /\ Obs.post.current_step = AWAITING_OTP
        /\ Stored(Obs.user_id).current_step = AWAITING_OTP

C4_RightCodeLocked ==
    /\ AtOtp
    /\ Obs.status = 200
    /\ Obs.track.struck
    /\ Obs.track.streak = MAX_ATTEMPTS
    /\ SixDigits(Obs.message)
    /\ Matches(Obs.pre, Obs.message)
    /\ Obs.at <= Obs.pre.otp_expires_at[1]

\* C5: a code submitted later than otp_expires_at is rejected whether it
\* matches or not and the step stays AWAITING_OTP; one submitted exactly at
\* otp_expires_at is not taken as expired, and is accepted when it matches and
\* attempts are left.
C5_ExpiryStrictlyAfter ==
    AtOtp =>
        /\ Obs.at > Obs.pre.otp_expires_at[1] =>
               /\ ~Obs.result[1].success
               /\ Obs.post.current_step = AWAITING_OTP
        /\ (Obs.at = Obs.pre.otp_expires_at[1] /\ SixDigits(Obs.message)) =>
               /\ Get(Obs.result[1].metadata, "error_type", "") # "expired"
               /\ (Matches(Obs.pre, Obs.message)
                       /\ Obs.pre.failed_otp_attempts < MAX_ATTEMPTS)
                      => Obs.result[1].success

C5_RightCodeExpired ==
    /\ AtOtp
    /\ Obs.status = 200
    /\ Obs.at > Obs.pre.otp_expires_at[1]
    /\ SixDigits(Obs.message)
    /\ Matches(Obs.pre, Obs.message)
    /\ Obs.pre.failed_otp_attempts = 0

\* C6: an input at AWAITING_OTP whose digit count is not 6 leaves the persisted
\* failed_otp_attempts as it was.
C6_WrongLengthKeepsAttempts ==
    (AtOtp /\ Obs.status = 200 /\ ~SixDigits(Obs.message)) =>
        Stored(Obs.user_id).failed_otp_attempts = Obs.pre.failed_otp_attempts

\* C7: a six-digit code submitted after the expiry leaves the persisted
\* failed_otp_attempts as it was.
C7_ExpiredKeepsAttempts ==
    (AtOtp /\ Obs.status = 200 /\ SixDigits(Obs.message)
     /\ Obs.at > Obs.pre.otp_expires_at[1]) =>
        Stored(Obs.user_id).failed_otp_attempts = Obs.pre.failed_otp_attempts

\* C8: a six-digit code that does not match, submitted against an unexpired
\* code with attempts < max_attempts, raises the attempt counter by exactly 1,
\* keeps the step at AWAITING_OTP and reports attempts_remaining =
\* max_attempts - the new count, with a message of its own when that is 0.
NoAttemptsLeft == "Invalid code. No attempts remaining. Please request a new code."

C8_MismatchCountsOnce ==
    (AtOtp /\ SixDigits(Obs.message) /\ ~Matches(Obs.pre, Obs.message)
     /\ Obs.at <= Obs.pre.otp_expires_at[1]
     /\ Obs.pre.failed_otp_attempts < MAX_ATTEMPTS) =>
        /\ Obs.post.failed_otp_attempts = Obs.pre.failed_otp_attempts + 1
        /\ Obs.post.current_step = AWAITING_OTP
        /\ Obs.status = 200 => Stored(Obs.user_id) = Obs.post
        /\ Obs.ctx.attempts_remaining = MAX_ATTEMPTS - Obs.post.failed_otp_attempts
        /\ Obs.result[1].metadata.attempts_remaining = Obs.ctx.attempts_remaining
        /\ (Obs.result[1].error_message = NoAttemptsLeft)
               <=> (Obs.ctx.attempts_remaining = 0)
        /\ Obs.ctx.error = Obs.result[1].error_message

C8_LastAttemptUsed ==
    /\ AtOtp
    /\ Obs.status = 200
    /\ SixDigits(Obs.message)
    /\ ~Matches(Obs.pre, Obs.message)
    /\ Obs.at <= Obs.pre.otp_expires_at[1]
    /\ Obs.pre.failed_otp_attempts = MAX_ATTEMPTS - 1
    /\ Obs.ctx.attempts_remaining = 0

\* C9: at AWAITING_PHONE with a valid number the step becomes AWAITING_OTP
\* only if send_otp_email returned success; if it failed the step stays
\* AWAITING_PHONE.
C9_AdvanceOnlyIfSent ==
    (Answering /\ Obs.pre.current_step = AWAITING_PHONE) =>
        /\ Obs.post.current_step = AWAITING_OTP
               => (Obs.result[1].success /\ Obs.mail # None /\ Obs.mail[1].sent)
        /\ (Obs.result[1].success /\ ~Obs.mail[1].sent)
               => /\ Obs.post.current_step = AWAITING_PHONE
                  /\ Stored(Obs.user_id).current_step = AWAITING_PHONE
        /\ (Obs.result[1].success /\ Obs.mail[1].sent /\ Obs.status = 200)
               => Stored(Obs.user_id).current_step = AWAITING_OTP

C9_DispatchFailed ==
    /\ Answering
    /\ Obs.status = 200
    /\ Obs.pre.current_step = AWAITING_PHONE
    /\ Obs.result[1].success
    /\ ~Obs.mail[1].sent
    /\ Stored(Obs.user_id).current_step = AWAITING_PHONE

\* C10: a message processed at AWAITING_TERMS, AWAITING_NAME, AWAITING_EMAIL or
\* AWAITING_PHONE that does not advance current_step leaves the persisted
\* completed_steps, data, otp_hash, otp_expires_at and failed_otp_attempts as
\* they were.
C10_FailureLeavesStateAlone ==
    (Answering /\ Obs.status = 200
     /\ Obs.pre.current_step \in
            {AWAITING_TERMS, AWAITING_NAME, AWAITING_EMAIL, AWAITING_PHONE}
     /\ Stored(Obs.user_id).current_step = Obs.pre.current_step) =>
        /\ Stored(Obs.user_id).completed_steps = Obs.pre.completed_steps
        /\ Stored(Obs.user_id).data = Obs.pre.data
        /\ Stored(Obs.user_id).otp_hash = Obs.pre.otp_hash
        /\ Stored(Obs.user_id).otp_expires_at = Obs.pre.otp_expires_at
        /\ Stored(Obs.user_id).failed_otp_attempts = Obs.pre.failed_otp_attempts

\* C11: whenever a request takes a user to ACTIVE, the users collection holds
\* that user's record with verified = TRUE and the session's first_name,
\* last_name, email, phone and country_code; when the write of the record
\* fails the step stays AWAITING_OTP.
C11_ActiveHasUserRecord ==
    (AtOtp /\ Obs.result[1].success) =>
        /\ Obs.post.current_step = ACTIVE =>
               /\ users[Obs.user_id] # None
               /\ users[Obs.user_id][1].verified
               /\ \A k \in {"first_name", "last_name", "email", "phone", "country_code"} :
                      users[Obs.user_id][1][k] = Obs.pre.data[k]
        /\ Obs.wrote = None => Obs.post.current_step = AWAITING_OTP

IsPrefix(s, t) == Len(s) <= Len(t) /\ SubSeq(t, 1, Len(s)) = s

\* C19: the completed_steps a request loaded is a prefix of the completed_steps
\* it returns and of the completed_steps stored after it.
C19_CompletedStepsAppendOnly ==
    Answering =>
        /\ IsPrefix(Obs.pre.completed_steps, Obs.post.completed_steps)
        /\ IsPrefix(Obs.pre.completed_steps, Stored(Obs.user_id).completed_steps)

C19_Appended ==
    /\ Answering
    /\ Obs.status = 200
    /\ Obs.pre.current_step = AWAITING_NAME
    /\ Len(Stored(Obs.user_id).completed_steps) = Len(Obs.pre.completed_steps) + 1

\* C20: each of the five markers occurs at most once in the stored
\* completed_steps of a user.
C20_MarkersUnique ==
    \A u \in Users :
        user_states[u] # None =>
            \A i, j \in 1..Len(Stored(u).completed_steps) :
                Stored(u).completed_steps[i] = Stored(u).completed_steps[j] => i = j

\* C16: a chat request makes execute_tool run a handler only for a user whose
\* current_step is ACTIVE, before the message or after it.
C16_HandlersOnlyWhenActive ==
    (Answering /\ Obs.tool # None /\ Obs.tool[1].invoked # << >>) =>
        \/ Obs.pre.current_step = ACTIVE
        \/ Obs.post.current_step = ACTIVE

(***************************************************************************)
(* The claims about concurrent requests, under SpecConcurrent.             *)
(***************************************************************************)
Working(i) == inflight[i] # None
Phase(i) == inflight[i][1].phase
Mutated(r) == r.h[1].state # r.state

\* C17: save_state writes the copy the request worked on whatever the collection
\* holds by then, so a request that loaded the state before another request of
\* the same user saved its change writes that change away.
C17_SaveOverwrites ==
    [][\A i \in Instances :
           (Working(i) /\ Phase(i) = "processed" /\ inflight'[i] # inflight[i]) =>
               user_states'[inflight[i][1].user_id] = <<inflight[i][1].h[1].state>>]_vars

\* Two requests of one user loaded the same state; one advanced the step and
\* saved, the other changed nothing and saved: the collection holds the state
\* both loaded, without the advance.
C17_LostUpdate ==
    \E i, j \in Instances :
        /\ i # j
        /\ Working(i) /\ Working(j)
        /\ Phase(i) = "saved" /\ Phase(j) = "saved"
        /\ inflight[i][1].user_id = inflight[j][1].user_id
        /\ inflight[i][1].state = inflight[j][1].state
        /\ inflight[i][1].h[1].state.current_step
               \in TRANSITIONS[inflight[i][1].state.current_step]
                      \ {inflight[i][1].state.current_step}
        /\ ~Mutated(inflight[j][1])
        /\ user_states[inflight[i][1].user_id] = <<inflight[j][1].state>>

\* C18: the stored UserState of a user changes only in a step of a request of
\* that user.
C18_OtherUsersUntouched ==
    [][\A b \in Clients :
           user_states'[b] # user_states[b] =>
               \E i \in Instances :
                   /\ inflight'[i] # inflight[i]
                   /\ inflight'[i] # None
                   /\ inflight'[i][1].user_id = b]_vars

C18_SavedBesideOther ==
    \E i, j \in Instances :
        /\ Working(i) /\ Working(j)
        /\ Phase(i) = "saved" /\ Phase(j) = "processed"
        /\ inflight[i][1].user_id = "u1" /\ inflight[j][1].user_id = "u2"
        /\ Mutated(inflight[i][1])
        /\ user_states["u1"] = <<inflight[i][1].h[1].state>>
        /\ user_states["u2"] # None
        /\ user_states["u2"][1].current_step = AWAITING_NAME

(***************************************************************************)
(* The claims about the registry, under SpecTools.                         *)
(***************************************************************************)
Registered(tool_call) == tool_call.name \in DOMAIN _register_builtin_tools
Required(tool_call) == _register_builtin_tools[tool_call.name].required
Lacking(tool_call) ==
    {i \in 1..Len(Required(tool_call)) :
        Required(tool_call)[i] \notin DOMAIN tool_call.parameters}
WellFormed(tool_call) == Registered(tool_call) /\ Lacking(tool_call) = {}
Executing == last # << >> /\ Obs.did # None

\* C12: execute_tool invokes no handler for a call whose name is not registered
\* or whose parameters lack a required key: such a call leaves the count of
\* handler invocations as it was, at zero if it was zero.
C12_NoHandlerForInvalidCall ==
    (Executing /\ ~WellFormed(Obs.call)) =>
        /\ Obs.did[1].invoked = << >>
        /\ invocations = Obs.invocations_before

C12_InvalidCallAtZero ==
    /\ Executing
    /\ Registered(Obs.call)
    /\ Lacking(Obs.call) # {}
    /\ invocations = 0

\* C13: for a call that fails validation execute_tool returns a ToolResult with
\* success = FALSE and the validation error; it does not raise.
C13_InvalidCallReturnsResult ==
    (Executing /\ ~WellFormed(Obs.call)) =>
        /\ Obs.did[1].outcome[1] = "return"
        /\ ~Obs.did[1].outcome[2].success
        /\ Obs.did[1].outcome[2].error = Obs.checked[2]

\* C14: for a valid call execute_tool returns a ToolResult, with success = TRUE
\* and the handler's value when the handler returned; it does not raise.
C14_ValidCallReturnsResult ==
    (Executing /\ WellFormed(Obs.call)) =>
        /\ Obs.did[1].outcome[1] = "return"
        /\ Obs.did[1].outcome[2].success
        /\ Obs.did[1].outcome[2].result
               = handler(Obs.call.name, Obs.call.parameters)[2]

StepsInUse ==
    {AWAITING_TERMS, AWAITING_NAME, AWAITING_EMAIL, AWAITING_PHONE, AWAITING_OTP,
     ACTIVE}

\* C21: the current_step of every persisted state, and of every state a request
\* loaded or process_message returned, is one of AWAITING_TERMS, AWAITING_NAME,
\* AWAITING_EMAIL, AWAITING_PHONE, AWAITING_OTP and ACTIVE: never SUSPENDED,
\* never VERIFIED.
C21_StepsInUse ==
    /\ \A u \in Users :
           user_states[u] # None => Stored(u).current_step \in StepsInUse
    /\ Answering =>
           /\ Obs.pre.current_step \in StepsInUse
           /\ Obs.post.current_step \in StepsInUse

C21_VerifiedCodeGoesToActive ==
    /\ AtOtp
    /\ Obs.status = 200
    /\ Obs.result[1].success
    /\ Obs.post.current_step = ACTIVE
    /\ Stored(Obs.user_id).current_step = ACTIVE

\* C22: a message processed while the user is SUSPENDED leaves current_step,
\* completed_steps, data and the OTP fields as they were, in the state returned
\* and in the state stored; no validator runs, no code is issued or mailed and
\* no user record is written.
C22_SuspendedIsInert ==
    (Answering /\ Obs.pre.current_step = SUSPENDED) =>
        /\ Obs.post = Obs.pre
        /\ Stored(Obs.user_id) = Obs.pre
        /\ Obs.result = None
        /\ Obs.mail = None
        /\ Obs.wrote = None
        /\ outbox[Obs.user_id] = None
        /\ users[Obs.user_id] = None

C22_SuspendedSubmitsRightCode ==
    /\ Answering
    /\ Obs.status = 200
    /\ Obs.pre.current_step = SUSPENDED
    /\ Obs.pre.otp_hash = <<hash_otp(Obs.message)>>
    /\ Obs.at <= Obs.pre.otp_expires_at[1]
    /\ Obs.pre.failed_otp_attempts = 0

\* C23: every message processed at ACTIVE, with the agent call failing as it
\* does inside the endpoint, leaves the step ACTIVE and completed_steps, data,
\* otp_hash, otp_expires_at and failed_otp_attempts as they were, in the state
\* returned and in the state stored.
C23_ActiveIsAbsorbing ==
    (Answering /\ Obs.pre.current_step = ACTIVE) =>
        /\ Obs.post.current_step = ACTIVE
        /\ Stored(Obs.user_id).current_step = ACTIVE
        /\ \A S \in {Obs.post, Stored(Obs.user_id)} :
               /\ S.completed_steps = Obs.pre.completed_steps
               /\ S.data = Obs.pre.data
               /\ S.otp_hash = Obs.pre.otp_hash
               /\ S.otp_expires_at = Obs.pre.otp_expires_at
               /\ S.failed_otp_attempts = Obs.pre.failed_otp_attempts

C23_ActiveUserWrites ==
    /\ Answering
    /\ Obs.status = 200
    /\ Obs.pre.current_step = ACTIVE
    /\ Obs.ctx.step = "active"
    /\ Obs.message = mTermsAccepted
    /\ Obs.pre.failed_otp_attempts > 0

\* C24: a successful email validation moves the step to AWAITING_PHONE whether
\* or not the user is a returning one; the step becomes AWAITING_OTP only by a
\* successful phone validation at AWAITING_PHONE and ACTIVE only by a
\* successful code verification at AWAITING_OTP, so a user stored at ACTIVE has
\* collected a phone number and verified a code in this UserState.
C24_ReturningUserVerifies ==
    /\ Answering =>
           /\ (Obs.pre.current_step = AWAITING_EMAIL /\ Obs.result[1].success) =>
                  Obs.post.current_step = AWAITING_PHONE
           /\ (Obs.post.current_step = AWAITING_OTP
               /\ Obs.pre.current_step # AWAITING_OTP) =>
                  /\ Obs.pre.current_step = AWAITING_PHONE
                  /\ Obs.result[1].success
                  /\ Obs.result[1].metadata.validation_type = "phone"
           /\ (Obs.post.current_step = ACTIVE /\ Obs.pre.current_step # ACTIVE) =>
                  /\ Obs.pre.current_step = AWAITING_OTP
                  /\ Obs.result[1].success
                  /\ Obs.result[1].metadata.validation_type = "otp"
    /\ \A u \in Users :
           (user_states[u] # None /\ Stored(u).current_step = ACTIVE) =>
               /\ \E i \in DOMAIN Stored(u).completed_steps :
                      Stored(u).completed_steps[i] = "phone_collected"
               /\ \E i \in DOMAIN Stored(u).completed_steps :
                      Stored(u).completed_steps[i] = "otp_verified"
               /\ "phone" \in DOMAIN Stored(u).data

C24_ReturningUserAsked ==
    /\ Answering
    /\ Obs.status = 200
    /\ Obs.pre.current_step = AWAITING_EMAIL
    /\ Obs.result[1].success
    /\ Obs.result[1].data.is_returning_user
    /\ Obs.post.data["returning_user"]
    /\ Stored(Obs.user_id).current_step = AWAITING_PHONE

\* The keys of data, and of the context handed to the text-generation service,
\* whose values are strings.
TextKeys ==
    {"first_name", "last_name", "email", "phone", "country_code",
     "existing_phone", "existing_country_code"}
OtherKeys == {"terms_agreed_at", "returning_user"}

\* state holds code in one of its fields
Holds(state, code) ==
    \/ state.otp_hash = <<code>>
    \/ \E k \in DOMAIN state.data \cap TextKeys : state.data[k] = code

\* C25: no field of a persisted UserState, data included, holds the plaintext
\* of a code: what is stored is the salted hash of the code that was drawn, and
\* the code itself goes to the mail dispatch only, not to the state returned
\* nor to the context of the reply.
C25_PlaintextNotPersisted ==
    /\ \A u \in Users :
           user_states[u] # None =>
               /\ DOMAIN Stored(u).data \subseteq TextKeys \cup OtherKeys
               /\ \A code \in Codes : ~Holds(Stored(u), code)
    /\ (Answering /\ Obs.mail # None) =>
           /\ Obs.mail[1].otp_code \in Codes
           /\ Obs.post.otp_hash = <<hash_otp(Obs.mail[1].otp_code)>>
           /\ ~Holds(Obs.post, Obs.mail[1].otp_code)
           /\ \A k \in DOMAIN Obs.ctx \cap TextKeys :
                  Obs.ctx[k] # Obs.mail[1].otp_code

C25_CodeMailedHashStored ==
    /\ Answering
    /\ Obs.status = 200
    /\ Obs.pre.current_step = AWAITING_PHONE
    /\ Obs.mail # None
    /\ Obs.mail[1].sent
    /\ outbox[Obs.user_id] = <<Obs.mail[1].otp_code>>
    /\ Stored(Obs.user_id).otp_hash = <<hash_otp(Obs.mail[1].otp_code)>>

\* C26: a successful phone validation at AWAITING_PHONE stores the hash of the
\* code just drawn, sets otp_expires_at to the time of the call plus 5 minutes
\* and sets failed_otp_attempts to 0; every other request leaves otp_hash and
\* otp_expires_at as they were and does not lower failed_otp_attempts.
C26_IssuanceSetsOtpFields ==
    Answering =>
        /\ (Obs.status = 200) =>
               /\ Stored(Obs.user_id).otp_hash = Obs.post.otp_hash
               /\ Stored(Obs.user_id).otp_expires_at = Obs.post.otp_expires_at
               /\ Stored(Obs.user_id).failed_otp_attempts
                      = Obs.post.failed_otp_attempts
        /\ IF Obs.pre.current_step = AWAITING_PHONE /\ Obs.result[1].success
           THEN /\ Obs.mail # None
                /\ Obs.post.otp_hash = <<hash_otp(Obs.mail[1].otp_code)>>
                /\ Obs.post.otp_expires_at = <<Obs.at + 5>>
                /\ Obs.post.failed_otp_attempts = 0
           ELSE /\ Obs.post.otp_hash = Obs.pre.otp_hash
                /\ Obs.post.otp_expires_at = Obs.pre.otp_expires_at
                /\ Obs.post.failed_otp_attempts >= Obs.pre.failed_otp_attempts

C26_SecondIssuance ==
    /\ Answering
    /\ Obs.status = 200
    /\ Obs.pre.current_step = AWAITING_PHONE
    /\ Obs.result[1].success
    /\ Obs.pre.otp_hash # None
    /\ Stored(Obs.user_id).otp_hash # Obs.pre.otp_hash
    /\ Obs.pre.otp_expires_at = <<5>>
    /\ Stored(Obs.user_id).otp_expires_at = <<10>>

\* The code stored for user_id can no longer be verified: it has expired or
\* its attempts are used up.
DeadCode(user_id) ==
    /\ last = << >>
    /\ StepOf(user_id) = AWAITING_OTP
    /\ \/ now > Stored(user_id).otp_expires_at[1]
       \/ Stored(user_id).failed_otp_attempts >= Stored(user_id).max_otp_attempts

\* Whatever is sent at AWAITING_OTP once the code is dead, the user stays at
\* AWAITING_OTP with the same code, and the code stays dead.
DeadCodeStaysDead ==
    [][\A u \in Users :
           DeadCode(u) =>
               /\ StepOf(u)' = AWAITING_OTP
               /\ Stored(u).otp_hash' = Stored(u).otp_hash
               /\ Stored(u).otp_expires_at' = Stored(u).otp_expires_at
               /\ Stored(u).failed_otp_attempts' >= Stored(u).failed_otp_attempts]_vars

C28_GetOrCreateState ==
    [][\A u \in Users :
           (last = << >> /\ last' # << >> /\ last'[1].user_id = u) =>
               IF user_states[u] = None
               THEN /\ last'[1].pre =
                           [user_id |-> u, current_step |-> AWAITING_TERMS,
                            completed_steps |-> << >>, data |-> << >>,
                            terms_agreed |-> FALSE, terms_agreed_at |-> None,
                            otp_hash |-> None, otp_expires_at |-> None,
                            failed_otp_attempts |-> 0, max_otp_attempts |-> 3]
                    /\ user_states'[u] # None
                    /\ last'[1].status = 500 =>
                           user_states' = [user_states EXCEPT ![u] = <<last'[1].pre>>]
               ELSE /\ last'[1].pre = user_states[u][1]
                    /\ last'[1].status = 500 => user_states' = user_states]_vars

C28_NewStateOutlivesFailedRequest ==
    /\ Answering
    /\ Obs.status = 500
    /\ Obs.pre.current_step = AWAITING_TERMS
    /\ Obs.pre.completed_steps = << >>
    /\ Obs.post # Obs.pre
    /\ Stored(Obs.user_id) = Obs.pre
    /\ canon[Obs.user_id] = -1

\* What the extraction found: the flag is true and the name, stripped, is not
\* empty.
Found(flag, field) ==
    /\ Obs.extracted[1] = "ok"
    /\ Obs.extracted[2][flag] = <<TRUE>>
    /\ Obs.extracted[2][field] # << >>
    /\ \E i \in DOMAIN Obs.extracted[2][field][1] :
           Obs.extracted[2][field][1][i] # " "
GivenInput == \E i \in DOMAIN Obs.user_input : Obs.user_input[i] # " "

\* C29: NameValidator.validate always returns a ValidationResult.  Its success
\* is true exactly when the input is not blank and the extraction gives a first
\* and a last name, both non-empty and both flagged present, and the data then
\* hold both; with a first name only, success is false and data is exactly that
\* first_name; on blank input, on a missing or empty first name and on an
\* extraction that raises, success is false and there is no data.
C29_NameValidator ==
    Answering =>
        /\ DOMAIN Obs.returned = {"success", "data", "error_message", "metadata"}
        /\ Obs.returned.success \in BOOLEAN
        /\ Obs.returned.success <=>
               (GivenInput /\ Found("has_first_name", "first_name")
                /\ Found("has_last_name", "last_name"))
        /\ Obs.returned.success =>
               /\ Obs.returned.data["first_name"]
                      = Strip(Obs.extracted[2].first_name[1])
               /\ Obs.returned.data["last_name"]
                      = Strip(Obs.extracted[2].last_name[1])
        /\ (GivenInput /\ Found("has_first_name", "first_name")
            /\ ~Found("has_last_name", "last_name")) =>
               /\ DOMAIN Obs.returned.data = {"first_name"}
               /\ Obs.returned.data["first_name"]
                      = Strip(Obs.extracted[2].first_name[1])
        /\ (~GivenInput \/ ~Found("has_first_name", "first_name")) =>
               Obs.returned.data = None

C29_BlankLastName ==
    /\ Answering
    /\ GivenInput
    /\ Found("has_first_name", "first_name")
    /\ Obs.extracted[2].has_last_name = <<TRUE>>
    /\ Obs.extracted[2].last_name = <<(<<" ">>)>>
    /\ ~Obs.returned.success
    /\ Obs.returned.data = [k \in {"first_name"} |-> <<"J", "o">>]

\* The letters of 'accept' and of 'agree', in either case.
AcceptLetters ==
    <<{"a","A"}, {"c","C"}, {"c","C"}, {"e","E"}, {"p","P"}, {"t","T"}>>
AgreeLetters == <<{"a","A"}, {"g","G"}, {"r","R"}, {"e","E"}, {"e","E"}>>

\* message holds the word somewhere, in any mix of cases
Spells(message, letters) ==
    \E i \in 0..(Len(message) - Len(letters)) :
        \A j \in DOMAIN letters : message[i + j] \in letters[j]

Accepting(message) ==
    \/ message = <<"T","E","R","M","S","_","A","C","C","E","P","T","E","D">>
    \/ Spells(message, AcceptLetters)
    \/ Spells(message, AgreeLetters)

C31_AtMostMaxComparisons == compared <= 3

\* The place of a step in the order of the flow.
Rank(step) == CHOOSE i \in DOMAIN StepOrder : StepOrder[i] = step

\* C32: the stored current_step of a user never moves backward in the order
\* AWAITING_TERMS, AWAITING_NAME, AWAITING_EMAIL, AWAITING_PHONE, AWAITING_OTP,
\* ACTIVE, however the requests of that user interleave.
C32_StepNeverMovesBack ==
    [][\A u \in Clients :
           user_states[u] # None =>
               Rank(user_states'[u][1].current_step)
                   >= Rank(user_states[u][1].current_step)]_vars

\* C33: the stored failed_otp_attempts of a user is at least 0 and at most
\* max_otp_attempts, whatever is rejected at AWAITING_OTP.
C33_CounterWithinMaximum ==
    \A u \in Users :
        user_states[u] # None =>
            /\ 0 <= Stored(u).failed_otp_attempts
            /\ Stored(u).failed_otp_attempts <= Stored(u).max_otp_attempts

\* C34: with requests served one at a time, a stored state at AWAITING_OTP has
\* otp_hash and otp_expires_at set and an email in data, which is what
\* _handle_otp builds its OTPData from.
C34_CodeToValidateAgainst ==
    \A u \in Users :
        (user_states[u] # None /\ Stored(u).current_step = AWAITING_OTP) =>
            /\ Stored(u).otp_hash # None
            /\ Stored(u).otp_expires_at # None
            /\ "email" \in DOMAIN Stored(u).data

C34_CodeAwaited ==
    /\ Answering
    /\ Obs.status = 200
    /\ Obs.pre.current_step = AWAITING_PHONE
    /\ Stored(Obs.user_id).current_step = AWAITING_OTP
    /\ Stored(Obs.user_id).otp_hash # None
    /\ Stored(Obs.user_id).data["email"] = mEmail

\* The fields of data a step leaves behind once it is passed.
FieldsOf ==
    <<{}, {"first_name", "last_name"}, {"email"}, {"phone", "country_code"}, {}>>

\* C35: with requests served one at a time, a stored state holds the marker
\* of every step before its current_step and the fields those steps collect:
\* first_name and last_name from AWAITING_EMAIL on, email from AWAITING_PHONE
\* on, phone and country_code from AWAITING_OTP on; at ACTIVE all five markers
\* and all five fields.
C35_ProgressMatchesData ==
    \A u \in Users :
        user_states[u] # None =>
            \A i \in 1..(Rank(Stored(u).current_step) - 1) :
                /\ \E j \in DOMAIN Stored(u).completed_steps :
                       Stored(u).completed_steps[j] = Markers[i]
                /\ FieldsOf[i] \subseteq DOMAIN Stored(u).data

C35_ActiveHoldsEverything ==
    \E u \in Users :
        /\ user_states[u] # None
        /\ Stored(u).current_step = ACTIVE
        /\ {"first_name", "last_name", "email", "phone", "country_code"}
               \subseteq DOMAIN Stored(u).data
        /\ Len(Stored(u).completed_steps) >= 5

\* The text values of the context a reply is generated from.
ReplyKeys == TextKeys \cup {"phone_masked"}
LastFour(text) == SubSeq(text, Len(text) - 3, Len(text))

\* C36: as long as a session has not given a phone number itself, its stored
\* state holds no phone number and no country code of a record of the users
\* collection, and the reply to its email shows no digits of such a number.
C36_NoStoredContactBeforeVerification ==
    /\ \A u \in Users :
           (user_states[u] # None /\ "phone" \notin DOMAIN Stored(u).data) =>
               \A id \in DOMAIN users :
                   users[id] # None =>
                       \A k \in DOMAIN Stored(u).data \cap TextKeys :
                           /\ Stored(u).data[k] # users[id][1].phone
                           /\ Stored(u).data[k] # users[id][1].country_code
    /\ (Answering /\ Obs.pre.current_step = AWAITING_EMAIL) =>
           \A id \in DOMAIN users :
               users[id] # None =>
                   \A k \in DOMAIN Obs.ctx \cap ReplyKeys :
                       ~Contains(Obs.ctx[k], LastFour(users[id][1].phone))

\* The confirmed appointments on a slot.
ConfirmedOn(slot_id) ==
    {i \in DOMAIN appointments :
         /\ appointments[i].slot_id = slot_id
         /\ appointments[i].status = "confirmed"}

\* C37: whatever create_appointment and cancel_appointment calls were made,
\* in whatever order and however interleaved, a slot has at most one confirmed
\* appointment and is available only when it has none.
C37_NoDoubleBooking ==
    \A s \in DOMAIN availability_slots :
        /\ Cardinality(ConfirmedOn(s)) <= 1
        /\ availability_slots[s] = "available" => ConfirmedOn(s) = {}

\* The confirmed appointments.
Confirmed == {i \in DOMAIN appointments : appointments[i].status = "confirmed"}

\* C38: an appointment is confirmed only on a time slot of its employee, date
\* and start time that was unbooked and is now booked, and no two confirmed
\* appointments have the same employee, date and time.
C38_ConfirmedOnlyOnUnbookedSlot ==
    /\ \A i \in Confirmed :
           \E id \in DOMAIN time_slots :
               /\ time_slots[id].employee_id = appointments[i].employee_id
               /\ time_slots[id].date = appointments[i].date
               /\ time_slots[id].start_time = appointments[i].time
               /\ time_slots[id].is_booked
    /\ \A i, j \in Confirmed :
           (/\ appointments[i].employee_id = appointments[j].employee_id
            /\ appointments[i].date = appointments[j].date
            /\ appointments[i].time = appointments[j].time) => i = j

\* C39: a chat request for user U that carries no bearer token, an invalid one
\* or one whose subject is another user, reads and changes no state: only a
\* request with a valid token for U is processed.
C39_OnlyTheTokenHolderActs ==
    [][\A u \in Users, message \in Messages, reply \in Replies,
          auth \in AuthHeaders \ {"valid"} :
           chat_as(u, message, NoInputs, reply, auth) =>
               UNCHANGED <<user_states, users, outbox>>]_vars

====
